---- MODULE Spec2Model ----
(***************************************************************************)
(* dperf: the drive test coordinator (pkg/dperf/perf.go) and the direct    *)
(* I/O slots it drives (pkg/dperf/run_linux.go).                           *)
(*                                                                         *)
(* Run fans out over the input paths (one goroutine per path, or one path  *)
(* after the other with Serial); runTests fans out over IOPerDrive write   *)
(* slots, joins them, fans out over IOPerDrive read slots, joins them,     *)
(* builds the path's result and removes <path>/<run id>.                   *)
(*                                                                         *)
(* Sizes are counted in blocks: FileSize = NBlocks * BlockSize, which is   *)
(* what cmd.go admits (both sizes are multiples of 4096).                  *)
(*                                                                         *)
(* Spec follows a whole run block by block. SpecCopy follows one slot's    *)
(* transfer byte by byte through the copy loops of run_linux.go and of     *)
(* part_003 (alignment, direct I/O fallback, short transfers, sync/close). *)
(* SpecRender follows the sort and the totals of RunAndRender, Render and  *)
(* the UI's RenderFinalResults; SpecSameDir is Spec with one directory     *)
(* given twice; SpecRun002 is the earlier Run of part_002; SpecUnset is a  *)
(* run with IOPerDrive left at 0; SpecCmd is the flag and path validation  *)
(* of cmd.go.                                                              *)
(* SpecPanic adds the panics of the core, SpecLive is Spec under a fair    *)
(* scheduler, SpecRun001 is the channel-based Run of part_001, SpecReader  *)
(* follows odirectReader.Read byte by byte and SpecUI the progress updates *)
(* of the UI model.                                                        *)
(***************************************************************************)
EXTENDS Integers, Sequences, FiniteSets, TLC

\* ---- bounds -------------------------------------------------------------
NPaths == 2            \* len(paths) is at most NPaths
MaxIOPerDrive == 2     \* d.IOPerDrive is at most MaxIOPerDrive
MaxSlots == 3          \* len(paths) * d.IOPerDrive is at most MaxSlots
NBlocks == 2           \* d.FileSize / d.BlockSize
MaxTput == 2           \* measured throughputs range over 1..MaxTput
MaxHalfPages == 5      \* one transfer: totalSize is at most MaxHalfPages * 2048 bytes
MaxBufPages == 2       \* one transfer: len(alignedBuf) is at most MaxBufPages * 4096 bytes
MaxResults == 3        \* sort and render: len(results) is at most MaxResults
MaxSizeNum == 5        \* the number of a size flag ranges over 0..MaxSizeNum
MaxLiveSlots == 2      \* a fair run: len(paths) * d.IOPerDrive is at most MaxLiveSlots
MaxFileBytes == 4      \* odirectReader: the file holds at most MaxFileBytes bytes
MaxReadBuf == 3        \* odirectReader: len(*o.Bufp) and len(buf) are at most MaxReadBuf

TputVals == 1..MaxTput

\* ---- program constants --------------------------------------------------
DefaultIOPerDrive == 4 \* Run: if d.IOPerDrive == 0 { d.IOPerDrive = 4 }
DirectioAlignSize == 4096 \* the alignment direct I/O needs
alignSize == 4096                 \* cmd.go: alignSize

\* ---- values -------------------------------------------------------------
Nil == "nil"
Canceled == "context canceled"      \* context.Canceled
ErrWrite == "write: input/output error"
ErrRead == "read: input/output error"
ErrNoEnt == "open: no such file or directory"
ErrReadSize == "Expected read"      \* fmt.Errorf("Expected read %d, read %d")
NoFile == -1                        \* the test file does not exist
RunId == "uuid"                     \* mustGetUUID(): the run's subdirectory
OldEntry == "old"                   \* an entry the path held before the run
EOF == "EOF"                        \* io.EOF
ErrUnexpectedEOF == "unexpected EOF" \* io.ErrUnexpectedEOF
ErrShortWrite == "short write"      \* io.ErrShortWrite
ErrWriteSize == "Expected to write" \* fmt.Errorf("Expected to write %d, wrote %d bytes")
ErrFcntl == "fcntl: bad file descriptor"
ErrSync == "fdatasync: input/output error"
ErrClose == "close: input/output error"
EINVAL == "invalid argument"        \* syscall.EINVAL

VARIABLES
    paths,              \* Run's paths ...string: the directory of each entry
    d,                  \* *DrivePerf: Serial, WriteOnly, IOPerDrive
    parentErr,          \* ctx.Err() of the caller's context
    cancelCalled,       \* Run's cancel() of childCtx has run
    runPc,              \* position of Run
    cur,                \* serial mode: index of the path being tested
    results,            \* results []*DrivePerfResult (Nil = nil pointer)
    err,                \* Run's named result err
    pathPc,             \* position of runTests for each path
    wpc,                \* position of each write slot
    rpc,                \* position of each read slot
    rn,                 \* blocks the slot's copy has transferred: written by copyAligned, then n of io.Copy
    errs,               \* runTests: errs[idx]
    writeThroughputs,   \* runTests: writeThroughputs[idx]
    readThroughputs,    \* runTests: readThroughputs[idx]
    listing,            \* the entries of each directory
    fileLen,            \* length in blocks of <dir>/<run id>/.writable-check.tmp-<idx>
    overrun,            \* history: the slot transferred a block after the context was cancelled
    slotsFailed,        \* history: how many slots of the path had failed when runTests returned
    firstErr,           \* history: the first slot failure observed on the path, in time
    cp,                 \* one transfer of the copy engine, followed byte by byte (NoCopy during a run)
    call                \* one call of a function outside Run (sort and render), with its inputs and outputs

vars == <<paths, d, parentErr, cancelCalled, runPc, cur, results, err, pathPc, wpc, rpc, rn,
          errs, writeThroughputs, readThroughputs, listing, fileLen, overrun, slotsFailed,
          firstErr, cp, call>>

Paths == 1..Len(paths)
Slots == 0..(d.IOPerDrive - 1)

\* childCtx.Err(): childCtx is cancelled by its parent or by cancel()
childCtxErr == IF parentErr # Nil THEN parentErr
               ELSE IF cancelCalled THEN Canceled ELSE Nil

RECURSIVE SumToMax(_, _)
\* the largest slot value instead of the sum
SumToMax(f, n) == IF n < 0 THEN 0
                  ELSE LET m == SumToMax(f, n - 1) IN IF f[n] > m THEN f[n] ELSE m

RECURSIVE SumTo(_, _)
\* the summing loops of runTests over idx = 0..n
SumTo(f, n) == IF n < 0 THEN 0 ELSE f[n] + SumTo(f, n - 1)

\* a nil *DrivePerfResult
NoResult == [nil |-> TRUE]
DrivePerfResult(e, w, r) == [Error |-> e, WriteThroughput |-> w, ReadThroughput |-> r]

WDone == {"ok", "fail"}
RDone == {"ok", "fail"}

\* the read phase launched without wg.Wait() on the write slots
WritesJoinedNoWait(p) == TRUE

\* one barrier for the whole run: the writes of every path must be over
WritesJoinedAllPaths(p) ==
    \A q \in Paths : pathPc[q] = "done" \/ (pathPc[q] # "none" /\ \A i \in Slots : wpc[q][i] \in WDone)

\* wg.Wait() after the write slots
WritesJoined(p) == \A i \in Slots : wpc[p][i] \in WDone
\* the read join left out
ReadsJoinedNoWait(p) == TRUE

\* wg.Wait() after the read slots
ReadsJoined(p) == \A i \in Slots : rpc[p][i] \in RDone

\* what the directories hold before the run: the first one an entry, the
\* others nothing
InitialListing == [dir \in 1..NPaths |-> IF dir = 1 THEN {OldEntry} ELSE {}]

\* the per-slot arrays runTests makes, one per path
SlotIds == 0..((IF MaxIOPerDrive > DefaultIOPerDrive THEN MaxIOPerDrive ELSE DefaultIOPerDrive) - 1)
SlotInit(v) == [p \in 1..NPaths |-> [i \in SlotIds |-> v]]

\* no transfer of the copy engine is being followed
NoCopy == [pc |-> "none"]
\* no call of a function outside Run is being followed
NoCall == [fn |-> "none"]

\* the inputs of a run: distinct directories, and a configuration cmd.go
\* admits (ioPerDrive > 0)
Inputs == {in \in [n : 1..NPaths, io : 1..MaxIOPerDrive] : in.n * in.io <= MaxSlots}

Init ==
    /\ \E in \in Inputs :
          /\ paths = [p \in 1..in.n |-> p]
          /\ d \in [Serial : BOOLEAN, WriteOnly : BOOLEAN, IOPerDrive : {in.io}]
    /\ parentErr = Nil
    /\ cancelCalled = FALSE
    /\ runPc = "init"
    /\ cur = 1
    /\ results = [p \in 1..NPaths |-> NoResult]
    /\ err = Nil
    /\ pathPc = [p \in 1..NPaths |-> "none"]
    /\ wpc = SlotInit("none")
    /\ rpc = SlotInit("none")
    /\ rn = SlotInit(0)
    /\ errs = SlotInit(Nil)
    /\ writeThroughputs = SlotInit(0)
    /\ readThroughputs = SlotInit(0)
    /\ listing = InitialListing
    /\ fileLen = SlotInit(NoFile)
    /\ overrun = SlotInit(FALSE)
    /\ slotsFailed = [p \in 1..NPaths |-> 0]
    /\ firstErr = [p \in 1..NPaths |-> Nil]
    /\ cp = NoCopy
    /\ call = NoCall

\* the caller cancels ctx (or its deadline passes) before Run has returned
Cancel ==
    /\ runPc # "returned"
    /\ parentErr = Nil
    /\ parentErr' = Canceled
    /\ UNCHANGED <<paths, d, cancelCalled, runPc, cur, results, err, pathPc, wpc, rpc, rn, errs,
                   writeThroughputs, readThroughputs, listing, fileLen, overrun, slotsFailed,
                   firstErr, cp, call>>

\* Run, up to the fan-out: the serial loop, or the IOPerDrive default and
\* then one goroutine per path
RunStart ==
    /\ runPc = "init"
    /\ runPc' = IF d.Serial THEN "serial" ELSE "wait"
    /\ d' = IF ~d.Serial /\ d.IOPerDrive = 0
            THEN [d EXCEPT !.IOPerDrive = DefaultIOPerDrive] ELSE d
    /\ UNCHANGED <<paths, parentErr, cancelCalled, cur, results, err, pathPc, wpc, rpc, rn, errs,
                   writeThroughputs, readThroughputs, listing, fileLen, overrun, slotsFailed,
                   firstErr, cp, call>>

\* the serial loop launching runTests without waiting for its return
runTestsStartNoWait(p) ==
    /\ pathPc[p] = "none"
    /\ runPc \in {"serial", "wait"}
    /\ pathPc' = [pathPc EXCEPT ![p] = "write"]
    /\ wpc' = [wpc EXCEPT ![p] = [i \in DOMAIN wpc[p] |-> IF i \in Slots THEN "start" ELSE "none"]]
    /\ UNCHANGED <<paths, d, parentErr, cancelCalled, runPc, cur, results, err, rpc, rn, errs,
                   writeThroughputs, readThroughputs, listing, fileLen, overrun, slotsFailed,
                   firstErr, cp, call>>

\* runTests(childCtx, path, uuidStr) up to the launch of the write slots
runTestsStart(p) ==
    /\ pathPc[p] = "none"
    /\ \/ runPc = "serial" /\ cur = p
       \/ runPc = "wait"
    /\ pathPc' = [pathPc EXCEPT ![p] = "write"]
    /\ wpc' = [wpc EXCEPT ![p] = [i \in DOMAIN wpc[p] |-> IF i \in Slots THEN "start" ELSE "none"]]
    /\ UNCHANGED <<paths, d, parentErr, cancelCalled, runPc, cur, results, err, rpc, rn, errs,
                   writeThroughputs, readThroughputs, listing, fileLen, overrun, slotsFailed,
                   firstErr, cp, call>>

\* nullReader.Read: fails once its context is cancelled, else fills the block
nullReaderRead(ctxErr) == IF ctxErr # Nil THEN [n |-> 0, err |-> ctxErr]
                          ELSE [n |-> 1, err |-> Nil]

\* newEncReader(ctx).Read: the payload source handed to copyAligned. It is
\* rng.NewReader(); ctx is not consulted. One call fills one block.
newEncReaderRead(ctxErr) == [n |-> 1, err |-> Nil]

\* a write slot whose error return skips wg.Done()
WriteSlotEndNoDone(p, i, e, t) ==
    /\ wpc' = [wpc EXCEPT ![p][i] = IF e = Nil THEN "ok" ELSE "returned"]
    /\ errs' = [errs EXCEPT ![p][i] = IF e = Nil THEN @ ELSE e]
    /\ writeThroughputs' = [writeThroughputs EXCEPT ![p][i] = IF e = Nil THEN t ELSE @]
    /\ overrun' = [overrun EXCEPT ![p][i] = FALSE]
    /\ firstErr' = [firstErr EXCEPT ![p] = IF e # Nil /\ @ = Nil THEN e ELSE @]

\* a write slot returns: errs[idx] = e, or writeThroughputs[idx] = t
WriteSlotEnd(p, i, e, t) ==
    /\ wpc' = [wpc EXCEPT ![p][i] = IF e = Nil THEN "ok" ELSE "fail"]
    /\ errs' = [errs EXCEPT ![p][i] = IF e = Nil THEN @ ELSE e]
    /\ writeThroughputs' = [writeThroughputs EXCEPT ![p][i] = IF e = Nil THEN t ELSE @]
    /\ overrun' = [overrun EXCEPT ![p][i] = FALSE]
    /\ firstErr' = [firstErr EXCEPT ![p] = IF e # Nil /\ @ = Nil THEN e ELSE @]

\* runWriteTest: os.MkdirAll(filepath.Dir(path)) and directio.OpenFile(path,
\* O_RDWR|O_CREATE|O_TRUNC); either may fail
WriteOpen(p, i) ==
    /\ wpc[p][i] = "start"
    /\ \/ \* MkdirAll fails
          /\ WriteSlotEnd(p, i, ErrWrite, 0)
          /\ UNCHANGED <<listing, fileLen>>
       \/ \* MkdirAll succeeds, OpenFile fails
          /\ WriteSlotEnd(p, i, ErrWrite, 0)
          /\ listing' = [listing EXCEPT ![paths[p]] = @ \cup {RunId}]
          /\ UNCHANGED fileLen
       \/ \* both succeed: the file exists and is empty
          /\ wpc' = [wpc EXCEPT ![p][i] = "copy"]
          /\ listing' = [listing EXCEPT ![paths[p]] = @ \cup {RunId}]
          /\ fileLen' = [fileLen EXCEPT ![paths[p]][i] = 0]
          /\ UNCHANGED <<errs, writeThroughputs, overrun, firstErr>>
    /\ UNCHANGED <<paths, d, parentErr, cancelCalled, runPc, cur, results, err, pathPc, rpc, rn,
                   readThroughputs, slotsFailed, cp, call>>

\* one iteration of copyAligned's loop in runWriteTest: io.ReadFull from the
\* payload source, then w.Write of the block; after the last block
\* of.Close(), the size check and the throughput measurement
WriteChunk(p, i) ==
    /\ wpc[p][i] = "copy"
    /\ LET src == newEncReaderRead(childCtxErr) IN
       IF src.err # Nil
       THEN /\ WriteSlotEnd(p, i, src.err, 0)
            /\ UNCHANGED <<fileLen, rn>>
       ELSE \/ \* w.Write fails: nothing of the block reaches the file
               /\ WriteSlotEnd(p, i, ErrWrite, 0)
               /\ UNCHANGED <<fileLen, rn>>
            \/ \* the block is written at the descriptor's offset; a file
               \* that was unlinked meanwhile has no name to grow under
               /\ rn' = [rn EXCEPT ![p][i] = @ + src.n]
               /\ fileLen' = [fileLen EXCEPT ![paths[p]][i] =
                                 IF @ = NoFile \/ @ >= rn[p][i] + src.n THEN @
                                 ELSE rn[p][i] + src.n]
               /\ IF rn[p][i] + src.n = NBlocks
                  THEN \E t \in TputVals : WriteSlotEnd(p, i, Nil, t)
                  ELSE /\ overrun' = [overrun EXCEPT ![p][i] = (childCtxErr # Nil)]
                       /\ UNCHANGED <<wpc, errs, writeThroughputs, firstErr>>
    /\ UNCHANGED <<paths, d, parentErr, cancelCalled, runPc, cur, results, err, pathPc, rpc,
                   readThroughputs, listing, slotsFailed, cp, call>>

\* runTests: after wg.Wait() on the write slots, launch the read slots
\* the read phase started whether or not WriteOnly is set
StartReadPhaseAlways(p) ==
    /\ pathPc[p] = "write"
    /\ WritesJoined(p)
    /\ pathPc' = [pathPc EXCEPT ![p] = "read"]
    /\ rpc' = [rpc EXCEPT ![p] = [i \in DOMAIN rpc[p] |-> IF i \in Slots THEN "start" ELSE "none"]]
    /\ rn' = [rn EXCEPT ![p] = [i \in DOMAIN @ |-> 0]]
    /\ UNCHANGED <<paths, d, parentErr, cancelCalled, runPc, cur, results, err, wpc, errs,
                   writeThroughputs, readThroughputs, listing, fileLen, overrun, slotsFailed,
                   firstErr, cp, call>>

StartReadPhase(p) ==
    /\ pathPc[p] = "write"
    /\ WritesJoined(p)
    /\ ~d.WriteOnly
    /\ pathPc' = [pathPc EXCEPT ![p] = "read"]
    /\ rpc' = [rpc EXCEPT ![p] = [i \in DOMAIN rpc[p] |-> IF i \in Slots THEN "start" ELSE "none"]]
    /\ rn' = [rn EXCEPT ![p] = [i \in DOMAIN @ |-> 0]]
    /\ UNCHANGED <<paths, d, parentErr, cancelCalled, runPc, cur, results, err, wpc, errs,
                   writeThroughputs, readThroughputs, listing, fileLen, overrun, slotsFailed,
                   firstErr, cp, call>>

\* a read slot returns: errs[idx] = e, or readThroughputs[idx] = t
ReadSlotEnd(p, i, e, t) ==
    /\ rpc' = [rpc EXCEPT ![p][i] = IF e = Nil THEN "ok" ELSE "fail"]
    /\ errs' = [errs EXCEPT ![p][i] = IF e = Nil THEN @ ELSE e]
    /\ readThroughputs' = [readThroughputs EXCEPT ![p][i] = IF e = Nil THEN t ELSE @]
    /\ overrun' = [overrun EXCEPT ![p][i] = FALSE]
    /\ firstErr' = [firstErr EXCEPT ![p] = IF e # Nil /\ @ = Nil THEN e ELSE @]

\* runReadTest: syscall.Open(path, O_DIRECT|O_RDONLY)
ReadOpen(p, i) ==
    /\ rpc[p][i] = "start"
    /\ IF fileLen[paths[p]][i] = NoFile
       THEN ReadSlotEnd(p, i, ErrNoEnt, 0)
       ELSE \/ ReadSlotEnd(p, i, ErrRead, 0)
            \/ /\ rpc' = [rpc EXCEPT ![p][i] = "copy"]
               /\ UNCHANGED <<errs, readThroughputs, overrun, firstErr>>
    /\ UNCHANGED <<paths, d, parentErr, cancelCalled, runPc, cur, results, err, pathPc, wpc, rn,
                   writeThroughputs, listing, fileLen, slotsFailed, cp, call>>

\* odirectReader.Read as io.Copy drives it, one block per step: the ctx check,
\* then syscall.Read; at end of file io.Copy returns and runReadTest
\* closes the reader, checks the size and measures
ReadChunk(p, i) ==
    /\ rpc[p][i] = "copy"
    /\ IF childCtxErr # Nil
       THEN /\ ReadSlotEnd(p, i, childCtxErr, 0)
            /\ UNCHANGED rn
       ELSE \/ \* the file has a block left; of a file that was unlinked
               \* meanwhile it is not known how much the descriptor still holds
               /\ \/ rn[p][i] < fileLen[paths[p]][i]
                  \/ fileLen[paths[p]][i] = NoFile /\ rn[p][i] < NBlocks
               /\ \/ \* syscall.Read fails
                     /\ ReadSlotEnd(p, i, ErrRead, 0)
                     /\ UNCHANGED rn
                  \/ \* one block is read and delivered
                     /\ rn' = [rn EXCEPT ![p][i] = @ + 1]
                     /\ UNCHANGED <<rpc, errs, readThroughputs, overrun, firstErr>>
            \/ \* n == 0: io.EOF
               /\ rn[p][i] >= fileLen[paths[p]][i]
               /\ UNCHANGED rn
               /\ IF rn[p][i] # NBlocks
                  THEN ReadSlotEnd(p, i, ErrReadSize, 0)
                  ELSE \E t \in TputVals : ReadSlotEnd(p, i, Nil, t)
    /\ UNCHANGED <<paths, d, parentErr, cancelCalled, runPc, cur, results, err, pathPc, wpc,
                   writeThroughputs, listing, fileLen, slotsFailed, cp, call>>

RECURSIVE FirstErr(_, _, _)
\* for _, err := range errs: the first non-nil entry in index order
FirstErr(e, i, n) == IF i > n THEN Nil
                     ELSE IF e[i] # Nil THEN e[i] ELSE FirstErr(e, i + 1, n)

\* errs shared by the whole run instead of one array per runTests call
PathResultSharedErrs(p) ==
    LET n == d.IOPerDrive - 1
        bad == {q \in Paths : FirstErr(errs[q], 0, n) # Nil}
    IN IF bad # {} THEN DrivePerfResult(FirstErr(errs[CHOOSE q \in bad : TRUE], 0, n), 0, 0)
       ELSE DrivePerfResult(Nil, SumTo(writeThroughputs[p], n),
                            IF d.WriteOnly THEN 0 ELSE SumTo(readThroughputs[p], n))

\* the error result keeps the sums of the slots that did succeed
PathResultPartialSums(p) ==
    LET n == d.IOPerDrive - 1
    IN DrivePerfResult(FirstErr(errs[p], 0, n), SumTo(writeThroughputs[p], n),
                       IF d.WriteOnly THEN 0 ELSE SumTo(readThroughputs[p], n))

\* the result runTests builds after the joins
PathResult(p) ==
    LET n == d.IOPerDrive - 1
        e == FirstErr(errs[p], 0, n)
    IN [Path |-> paths[p]] @@
       (IF e # Nil THEN DrivePerfResult(e, 0, 0)
        ELSE DrivePerfResult(Nil, SumTo(writeThroughputs[p], n),
                             IF d.WriteOnly THEN 0 ELSE SumTo(readThroughputs[p], n)))

\* the removal not deferred: skipped on the early error return
RemoveAllOnSuccess(p) ==
    IF FirstErr(errs[p], 0, d.IOPerDrive - 1) # Nil THEN listing[paths[p]]
    ELSE listing[paths[p]] \ {RunId}

\* os.RemoveAll(path): the path's directory emptied, not only <path>/<run id>
RemoveAllPath(p) == {}

\* defer os.RemoveAll(testUUIDPath): the entries of the path's directory
\* that remain
RemoveAll(p) == listing[paths[p]] \ {RunId}

\* runTests returns: the joins are over, the result is built, the deferred
\* RemoveAll runs, the slot arrays go out of scope, and the caller stores
\* the result in results[idx]
runTestsReturn(p) ==
    /\ \/ pathPc[p] = "read" /\ ReadsJoined(p)
       \/ pathPc[p] = "write" /\ WritesJoined(p) /\ d.WriteOnly
    /\ results' = [results EXCEPT ![p] = PathResult(p)]
    /\ listing' = [listing EXCEPT ![paths[p]] = RemoveAll(p)]
    /\ fileLen' = [fileLen EXCEPT ![paths[p]] =
                      [i \in DOMAIN @ |-> IF RunId \in RemoveAll(p) THEN @[i] ELSE NoFile]]
    /\ slotsFailed' = [slotsFailed EXCEPT ![p] =
                          Cardinality({i \in Slots : wpc[p][i] = "fail" \/ rpc[p][i] = "fail"})]
    /\ pathPc' = [pathPc EXCEPT ![p] = "done"]
    /\ wpc' = [wpc EXCEPT ![p] = [i \in DOMAIN @ |-> "none"]]
    /\ rpc' = [rpc EXCEPT ![p] = [i \in DOMAIN @ |-> "none"]]
    /\ rn' = [rn EXCEPT ![p] = [i \in DOMAIN @ |-> 0]]
    /\ errs' = [errs EXCEPT ![p] = [i \in DOMAIN @ |-> Nil]]
    /\ writeThroughputs' = [writeThroughputs EXCEPT ![p] = [i \in DOMAIN @ |-> 0]]
    /\ readThroughputs' = [readThroughputs EXCEPT ![p] = [i \in DOMAIN @ |-> 0]]
    /\ cur' = IF d.Serial THEN cur + 1 ELSE cur
    /\ firstErr' = [firstErr EXCEPT ![p] = Nil]
    /\ UNCHANGED <<paths, d, parentErr, cancelCalled, runPc, err, overrun, cp, call>>

\* the two defers registered in the other order: cancel() runs first
DeferredErrAfterCancel == Canceled

\* the value the deferred func() reads: it runs before the deferred cancel()
DeferredErr == childCtxErr

\* on cancellation the results are dropped: return nil, childCtx.Err()
RunReturnNilResults ==
    /\ \/ runPc = "serial" /\ cur > Len(paths)
       \/ runPc = "wait" /\ \A p \in Paths : pathPc[p] = "done"
    /\ err' = DeferredErr
    /\ results' = IF DeferredErr # Nil THEN [p \in 1..NPaths |-> NoResult] ELSE results
    /\ cancelCalled' = TRUE
    /\ runPc' = "returned"
    /\ UNCHANGED <<paths, d, parentErr, cur, pathPc, wpc, rpc, rn, errs,
                   writeThroughputs, readThroughputs, listing, fileLen, overrun, slotsFailed,
                   firstErr, cp, call>>

\* Run returns: the serial loop is over or wg.Wait() returned; the deferred
\* func sets err from childCtx.Err(), then the deferred cancel() runs
RunReturn ==
    /\ \/ runPc = "serial" /\ cur > Len(paths)
       \/ runPc = "wait" /\ \A p \in Paths : pathPc[p] = "done"
    /\ err' = DeferredErr
    /\ cancelCalled' = TRUE
    /\ runPc' = "returned"
    /\ UNCHANGED <<paths, d, parentErr, cur, results, pathPc, wpc, rpc, rn, errs,
                   writeThroughputs, readThroughputs, listing, fileLen, overrun, slotsFailed,
                   firstErr, cp, call>>

Next ==
    \/ Cancel
    \/ RunStart
    \/ \E p \in Paths : runTestsStart(p)
    \/ \E p \in Paths : \E i \in Slots : WriteOpen(p, i)
    \/ \E p \in Paths : \E i \in Slots : WriteChunk(p, i)
    \/ \E p \in Paths : StartReadPhase(p)
    \/ \E p \in Paths : \E i \in Slots : ReadOpen(p, i)
    \/ \E p \in Paths : \E i \in Slots : ReadChunk(p, i)
    \/ \E p \in Paths : runTestsReturn(p)
    \/ RunReturn

Spec == Init /\ [][Next]_vars

\* ---- one transfer of the copy engine -----------------------------------
\* A second specification follows one slot's transfer byte by byte:
\* runWriteTest and runReadTest with the copy loops they use, in the two
\* versions the repository holds: run_linux.go (copyAligned(fd, w, r,
\* alignedBuf, totalSize) for the write, io.Copy over odirectReader for the
\* read) and part_003 (copyAligned(w, r, alignedBuf, totalSize, fd) for
\* both). The variables of the run keep their initial values.

Min(a, b) == IF a < b THEN a ELSE b

\* the sizes of a transfer, in bytes: multiples of half the alignment
HalfPage == DirectioAlignSize \div 2
TotalSizes == {k * HalfPage : k \in 1..MaxHalfPages}
\* the buffers cmd.go admits: multiples of the alignment
BufLens == {k * DirectioAlignSize : k \in 1..MaxBufPages}
\* the bytes the source holds before its end
SrcLens == {k * HalfPage : k \in 0..(MaxHalfPages + 1)}

\* io.ReadFull(r, buf) on a source holding avail bytes, len(buf) = len
ReadFull(avail, len) ==
    LET nr == Min(avail, len)
    IN [nr |-> nr,
        err |-> IF nr = len THEN Nil ELSE IF nr = 0 THEN EOF ELSE ErrUnexpectedEOF]

\* what w.Write(buf) may return for len(buf) = len: all of it, or fewer bytes
\* with or without an error; nullWriter takes all of it
WriteReturns(c, len) ==
    {[n |-> len, err |-> Nil]}
    \cup (IF c.test = "read" /\ c.impl = "part_003" THEN {}
          ELSE {[n |-> m, err |-> e] : m \in {x \in 0..(len - 1) : x % HalfPage = 0},
                                       e \in {Nil, ErrWrite}})

\* the transfer c after w.Write(buf), len(buf) = len, returned r
Written(c, len, r) ==
    [c EXCEPT !.delivered = @ + r.n,
              !.unalignedDirect = @ \/ (len % DirectioAlignSize # 0 /\ c.direct),
              !.writeAfterShort = @ \/ c.shortSeen,
              !.shortSeen = @ \/ (r.n < len /\ r.err = Nil),
              !.otherFail = @ \/ r.n < len \/ r.err # Nil]

\* the fcntl left out: the flag stays
DisabledNoop(c) == c

\* disableDirectIO(fd) went through: O_DIRECT is cleared
Disabled(c) == [c EXCEPT !.direct = FALSE, !.disables = @ + 1]
\* disableDirectIO(fd) failed in fcntl
DisableFailed(c) == [c EXCEPT !.disables = @ + 1, !.otherFail = TRUE]

\* the copy loop returns (n, e)
Return(c, n, e) == [c EXCEPT !.pc = "copied", !.n = n, !.err = e]

\* the end of an iteration without the test for a short write
AfterWriteNoShortCheck(c, len, nw, e, eof) ==
    LET w == c.written + nw
        c1 == [c EXCEPT !.written = w]
    IN IF e # Nil THEN Return(c1, w, e)
       ELSE IF w = c.totalSize THEN Return(c1, w, Nil)
       ELSE IF eof THEN Return(c1, w, Nil)
       ELSE c1

\* the tail of one iteration of copyAligned in run_linux.go, from
\* "if nw > 0": nw bytes of the len read were written, with error e
AfterWrite(c, len, nw, e, eof) ==
    LET w == c.written + nw
        c1 == [c EXCEPT !.written = w]
    IN IF e # Nil THEN Return(c1, w, e)
       ELSE IF nw # len THEN Return(c1, w, ErrShortWrite)
       ELSE IF w = c.totalSize THEN Return(c1, w, Nil)
       ELSE IF eof THEN Return(c1, w, Nil)
       ELSE c1

\* the tail of one iteration of copyAligned in part_003: a premature end of
\* the input is io.ErrUnexpectedEOF
AfterWrite_part003(c, len, nw, e, eof) ==
    LET w == c.written + nw
        c1 == [c EXCEPT !.written = w]
    IN IF e # Nil THEN Return(c1, w, e)
       ELSE IF nw # len THEN Return(c1, w, ErrShortWrite)
       ELSE IF w = c.totalSize THEN Return(c1, w, Nil)
       ELSE IF eof THEN Return(c1, w, ErrUnexpectedEOF)
       ELSE c1

\* one iteration of copyAligned in run_linux.go on the transfer c: the
\* transfers it may leave
copyAlignedIter(c) ==
    LET len == Min(c.bufLen, c.totalSize - c.written)
        rf == ReadFull(c.src, len)
        eof == rf.err # Nil
        c0 == [c EXCEPT !.requested = @ + len]
        c1 == [c0 EXCEPT !.src = @ - rf.nr, !.eofSeen = @ \/ eof]
    IN  \* io.ReadFull fails with an error of the source
        {Return([c0 EXCEPT !.otherFail = TRUE], c.written, ErrRead)}
        \cup
        (IF rf.nr % DirectioAlignSize = 0
         THEN {AfterWrite(Written(c1, rf.nr, r), rf.nr, r.n, r.err, eof) : r \in WriteReturns(c1, rf.nr)}
         ELSE \* writeUnaligned: disableDirectIO, then io.Copy(w, bytes.NewReader(buf))
              {Return(DisableFailed(c1), c1.written, ErrFcntl)}
              \cup
              {AfterWrite(Written(Disabled(c1), rf.nr, r), rf.nr, r.n,
                          IF r.err = Nil /\ r.n < rf.nr THEN ErrShortWrite ELSE r.err, eof)
                 : r \in WriteReturns(c1, rf.nr)})

\* one iteration of copyAligned in part_003 on the transfer c: the transfers
\* it may leave
copyAlignedIter_part003(c) ==
    LET len == Min(c.bufLen, c.totalSize - c.written)
        pre == len % DirectioAlignSize # 0
        ca == IF pre THEN Disabled(c) ELSE c
        rf == ReadFull(c.src, len)
        eof == rf.err # Nil
        c0 == [ca EXCEPT !.requested = @ + len]
        c1 == [c0 EXCEPT !.src = @ - rf.nr, !.eofSeen = @ \/ eof]
        remain == rf.nr % DirectioAlignSize
        head == rf.nr - remain
        \* the unaligned remainder, after nw1 bytes of the aligned part
        Rest(c2, nw1) ==
            {Return(DisableFailed(c2), c2.written, ErrFcntl)}
            \cup
            {AfterWrite_part003(Written(Disabled(c2), remain, r2), rf.nr, nw1 + r2.n, r2.err, eof)
               : r2 \in WriteReturns(c2, remain)}
    IN  (IF pre THEN {Return(DisableFailed(c), c.written, ErrFcntl)} ELSE {})
        \cup
        {Return([c0 EXCEPT !.otherFail = TRUE], c.written, ErrRead)}
        \cup
        (IF remain = 0
         THEN {AfterWrite_part003(Written(c1, rf.nr, r), rf.nr, r.n, r.err, eof)
                 : r \in WriteReturns(c1, rf.nr)}
         ELSE IF head > 0
         THEN UNION {LET c2 == Written(c1, head, r1)
                     IN IF r1.err # Nil THEN {Return(c2, c2.written, r1.err)}
                        ELSE Rest(c2, r1.n)
                       : r1 \in WriteReturns(c1, head)}
         ELSE Rest(c1, 0))

\* what syscall.Read(o.fd, o.buf) may return on the test file: an error, a
\* rejection of the direct read, or up to len(o.buf) of the bytes left
\* (none at the end of the file)
SyscallRead(c) ==
    {[n |-> 0, err |-> ErrRead]}
    \cup (IF c.direct THEN {[n |-> 0, err |-> EINVAL]} ELSE {})
    \cup {[n |-> k, err |-> Nil] : k \in {Min(c.src, c.bufLen), Min(c.src, HalfPage)}}

\* io.Copy(&nullWriter{}, of) in runReadTest of run_linux.go, one refill of
\* odirectReader's buffer per step: syscall.Read, on EINVAL disableDirectIO
\* and one more syscall.Read; the bytes read go to nullWriter; at n == 0
\* io.Copy returns
ioCopyIter(c) ==
    LET Got(c1, r) ==
            IF r.err # Nil THEN Return([c1 EXCEPT !.otherFail = TRUE], c1.written, r.err)
            ELSE IF r.n = 0 THEN Return([c1 EXCEPT !.eofSeen = TRUE], c1.written, Nil)
            ELSE [c1 EXCEPT !.src = @ - r.n, !.written = @ + r.n, !.delivered = @ + r.n]
        c0 == [c EXCEPT !.requested = @ + c.bufLen]
    IN UNION {IF r.err = EINVAL
              THEN {Return(DisableFailed(c0), c0.written, ErrFcntl)}
                   \cup {Got(Disabled(c0), r2) : r2 \in SyscallRead(Disabled(c0))}
              ELSE {Got(c0, r)}
                : r \in SyscallRead(c0)}

\* the slot function returns (0, e), or a throughput when e is Nil
SlotReturn(c, e) == [c EXCEPT !.pc = "returned", !.slotErr = e, !.tput = (e = Nil)]

\* the transfer a slot starts once its file is open with O_DIRECT
NewTransfer(impl, test, total, buflen, srclen) ==
    [pc |-> "loop", impl |-> impl, test |-> test, totalSize |-> total, bufLen |-> buflen,
     src0 |-> srclen, src |-> srclen, written |-> 0, requested |-> 0, delivered |-> 0,
     direct |-> TRUE, disables |-> 0, n |-> 0, err |-> Nil,
     eofSeen |-> FALSE, otherFail |-> FALSE, shortSeen |-> FALSE, writeAfterShort |-> FALSE,
     unalignedDirect |-> FALSE, syncTried |-> FALSE, syncErr |-> Nil, closed |-> FALSE,
     closeErr |-> Nil, slotErr |-> Nil, tput |-> FALSE]

runVars == <<paths, d, parentErr, cancelCalled, runPc, cur, results, err, pathPc, wpc, rpc, rn,
             errs, writeThroughputs, readThroughputs, listing, fileLen, overrun, slotsFailed,
             firstErr>>

\* one slot of one path: FileSize = totalSize and BlockSize = len(data) as
\* cmd.go admits them, except that FileSize may also end within a page; the
\* source is the payload reader (write) or the test file (read)
CopyInit ==
    /\ cp \in {NewTransfer(impl, test, total, buflen, srclen) :
                 impl \in {"run_linux", "part_003"}, test \in {"write", "read"},
                 total \in TotalSizes, buflen \in BufLens, srclen \in SrcLens}
    /\ paths = <<1>>
    /\ d = [Serial |-> FALSE, WriteOnly |-> FALSE, IOPerDrive |-> 1]
    /\ parentErr = Nil
    /\ cancelCalled = FALSE
    /\ runPc = "wait"
    /\ cur = 1
    /\ results = [p \in 1..NPaths |-> NoResult]
    /\ err = Nil
    /\ pathPc = [p \in 1..NPaths |-> "none"]
    /\ wpc = SlotInit("none")
    /\ rpc = SlotInit("none")
    /\ rn = SlotInit(0)
    /\ errs = SlotInit(Nil)
    /\ writeThroughputs = SlotInit(0)
    /\ readThroughputs = SlotInit(0)
    /\ listing = [InitialListing EXCEPT ![1] = @ \cup {RunId}]
    /\ fileLen = SlotInit(NoFile)
    /\ overrun = SlotInit(FALSE)
    /\ slotsFailed = [p \in 1..NPaths |-> 0]
    /\ firstErr = [p \in 1..NPaths |-> Nil]
    /\ call = NoCall

\* copyAligned(f.Fd(), of, newEncReader(ctx), data, FileSize) in runWriteTest
\* of run_linux.go, one iteration of its loop
copyAligned ==
    /\ cp.pc = "loop" /\ cp.impl = "run_linux" /\ cp.test = "write"
    /\ cp' \in copyAlignedIter(cp)
    /\ UNCHANGED <<runVars, call>>

\* copyAligned(w, r, data, FileSize, fd) of part_003, one iteration of its
\* loop, in runWriteTest and in runReadTest
copyAligned_part003 ==
    /\ cp.pc = "loop" /\ cp.impl = "part_003"
    /\ cp' \in copyAlignedIter_part003(cp)
    /\ UNCHANGED <<runVars, call>>

\* io.Copy(&nullWriter{}, of) in runReadTest of run_linux.go, one refill
ioCopy ==
    /\ cp.pc = "loop" /\ cp.impl = "run_linux" /\ cp.test = "read"
    /\ cp' \in ioCopyIter(cp)
    /\ UNCHANGED <<runVars, call>>

\* runWriteTest without its check of the number of bytes written
runWriteTestEndNoSizeCheck ==
    /\ cp.pc = "copied" /\ cp.impl = "run_linux" /\ cp.test = "write"
    /\ \E se \in {Nil, ErrSync}, ce \in {Nil, ErrClose} :
         cp' = SlotReturn([cp EXCEPT !.syncTried = TRUE, !.syncErr = se,
                                     !.closed = TRUE, !.closeErr = ce], cp.err)
    /\ UNCHANGED <<runVars, call>>

\* runWriteTest of run_linux.go after copyAligned: of.Close(), which calls
\* fdatasync and then File.Close() and whose result is dropped, then the
\* error and the size checks
runWriteTestEnd ==
    /\ cp.pc = "copied" /\ cp.impl = "run_linux" /\ cp.test = "write"
    /\ \E se \in {Nil, ErrSync}, ce \in {Nil, ErrClose} :
         cp' = SlotReturn([cp EXCEPT !.syncTried = TRUE, !.syncErr = se,
                                     !.closed = TRUE, !.closeErr = ce],
                          IF cp.err # Nil THEN cp.err
                          ELSE IF cp.n # cp.totalSize THEN ErrWriteSize ELSE Nil)
    /\ UNCHANGED <<runVars, call>>

\* runWriteTest of part_003 after copyAligned: w.Close() and return on an
\* error or a wrong size; else fdatasync, then w.Close(), each returned when
\* it fails
runWriteTestEnd_part003 ==
    /\ cp.pc = "copied" /\ cp.impl = "part_003" /\ cp.test = "write"
    /\ IF cp.err # Nil \/ cp.n # cp.totalSize
       THEN \E ce \in {Nil, ErrClose} :
               cp' = SlotReturn([cp EXCEPT !.closed = TRUE, !.closeErr = ce],
                                IF cp.err # Nil THEN cp.err ELSE ErrWriteSize)
       ELSE \/ cp' = SlotReturn([cp EXCEPT !.syncTried = TRUE, !.syncErr = ErrSync], ErrSync)
            \/ \E ce \in {Nil, ErrClose} :
                  cp' = SlotReturn([cp EXCEPT !.syncTried = TRUE, !.closed = TRUE,
                                              !.closeErr = ce], ce)
    /\ UNCHANGED <<runVars, call>>

\* runReadTest after the copy, in both versions: the file is closed, then
\* the error and the size checks
runReadTestEnd ==
    /\ cp.pc = "copied" /\ cp.test = "read"
    /\ \E ce \in {Nil, ErrClose} :
         cp' = SlotReturn([cp EXCEPT !.closed = TRUE, !.closeErr = ce],
                          IF cp.err # Nil THEN cp.err
                          ELSE IF cp.n # cp.totalSize THEN ErrReadSize ELSE Nil)
    /\ UNCHANGED <<runVars, call>>

CopyNext ==
    \/ copyAligned
    \/ copyAligned_part003
    \/ ioCopy
    \/ runWriteTestEnd
    \/ runWriteTestEnd_part003
    \/ runReadTestEnd

SpecCopy == CopyInit /\ [][CopyNext]_vars

\* ---- sort and render ---------------------------------------------------
\* A third specification follows one call that orders and totals a list of
\* results: RunAndRender (sort.Slice, then render), the exported Render
\* (render alone) and the UI's RenderFinalResults (its own sort and totals).

\* a *DrivePerfResult with its Path: the index of the path in Run's input
Result(path, e, w, r) ==
    [Path |-> path, Error |-> e, WriteThroughput |-> w, ReadThroughput |-> r]

\* the results Run returns for n paths: an error with both throughputs 0, or
\* the sums of the slots, the read sum 0 with WriteOnly
RunResults(n, writeOnly) ==
    LET Outcomes == [Error : {Nil}, WriteThroughput : TputVals,
                     ReadThroughput : IF writeOnly THEN {0} ELSE TputVals]
                    \cup [Error : {ErrWrite}, WriteThroughput : {0}, ReadThroughput : {0}]
    IN {[p \in 1..n |-> Result(p, t[p].Error, t[p].WriteThroughput, t[p].ReadThroughput)]
          : t \in [1..n -> Outcomes]}

\* any list of n results, as a caller of the exported Render may pass it
AnyResults(n) ==
    LET Outcomes == [Error : {Nil, ErrWrite}, WriteThroughput : 0..MaxTput,
                     ReadThroughput : 0..MaxTput]
    IN {[p \in 1..n |-> Result(p, t[p].Error, t[p].WriteThroughput, t[p].ReadThroughput)]
          : t \in [1..n -> Outcomes]}

\* the less function RunAndRender passes to sort.Slice
Less(a, b) == a.ReadThroughput > b.ReadThroughput

Swap(s, i, j) == [s EXCEPT ![i] = s[j], ![j] = s[i]]

RECURSIVE SinkDown(_, _)
\* the inner loop of the insertion sort: for j := i; j > a && less(j, j-1); j--
SinkDown(s, j) == IF j > 1 /\ Less(s[j], s[j - 1]) THEN SinkDown(Swap(s, j, j - 1), j - 1) ELSE s

RECURSIVE InsertionSort(_, _)
\* sort.Slice on fewer than 12 elements: insertion sort from index i on
InsertionSort(s, i) == IF i > Len(s) THEN s ELSE InsertionSort(SinkDown(s, i), i + 1)

RECURSIVE ExchangeSort(_, _, _)
\* the two loops of RenderFinalResults: for i, for j := i + 1, swap when
\* sortedResults[i].ReadThroughput < sortedResults[j].ReadThroughput
ExchangeSort(s, i, j) ==
    IF i > Len(s) THEN s
    ELSE IF j > Len(s) THEN ExchangeSort(s, i + 1, i + 2)
    ELSE ExchangeSort(IF s[i].ReadThroughput < s[j].ReadThroughput THEN Swap(s, i, j) ELSE s,
                      i, j + 1)

RECURSIVE Aggregate(_, _, _)
\* render: aggregateWrite or aggregateRead (field f) over results[1..n]
Aggregate(s, f, n) == IF n = 0 THEN 0 ELSE s[n][f] + Aggregate(s, f, n - 1)

RECURSIVE AggregateOK(_, _, _)
\* RenderFinalResults: totalWrite or totalRead, over the results without Error
AggregateOK(s, f, n) ==
    IF n = 0 THEN 0
    ELSE (IF s[n].Error = Nil THEN s[n][f] ELSE 0) + AggregateOK(s, f, n - 1)

NewCall(fn, writeOnly, in) ==
    [fn |-> fn, pc |-> IF fn = "Render" THEN "sorted" ELSE "start", writeOnly |-> writeOnly,
     in |-> in, list |-> in, totalWrite |-> 0, totalRead |-> 0]

\* the variables of a run other than its inputs, before Run is called
Fresh ==
    /\ parentErr = Nil
    /\ cancelCalled = FALSE
    /\ runPc = "init"
    /\ cur = 1
    /\ results = [p \in 1..NPaths |-> NoResult]
    /\ err = Nil
    /\ pathPc = [p \in 1..NPaths |-> "none"]
    /\ wpc = SlotInit("none")
    /\ rpc = SlotInit("none")
    /\ rn = SlotInit(0)
    /\ errs = SlotInit(Nil)
    /\ writeThroughputs = SlotInit(0)
    /\ readThroughputs = SlotInit(0)
    /\ listing = InitialListing
    /\ fileLen = SlotInit(NoFile)
    /\ overrun = SlotInit(FALSE)
    /\ slotsFailed = [p \in 1..NPaths |-> 0]
    /\ firstErr = [p \in 1..NPaths |-> Nil]

\* the variables of a run, before Run is called
RunIdle ==
    /\ paths = <<1>>
    /\ d = [Serial |-> FALSE, WriteOnly |-> FALSE, IOPerDrive |-> 1]
    /\ Fresh

\* RunAndRender and RenderFinalResults get what Run returned; Render gets
\* what its caller passes
RenderInit ==
    /\ call \in UNION {
          {NewCall(fn, wo, in) : fn \in {"RunAndRender", "RenderFinalResults"},
                                 in \in RunResults(n, wo)}
          \cup {NewCall("Render", wo, in) : in \in AnyResults(n)}
            : n \in 0..MaxResults, wo \in BOOLEAN}
    /\ cp = NoCopy
    /\ RunIdle

\* RunAndRender: sort.Slice(results, less)
sortSlice ==
    /\ call.fn = "RunAndRender" /\ call.pc = "start"
    /\ call' = [call EXCEPT !.pc = "sorted", !.list = InsertionSort(call.in, 2)]
    /\ UNCHANGED <<runVars, cp>>

\* RenderFinalResults: the copy of m.Results, sorted by the two loops
RenderFinalResultsSort ==
    /\ call.fn = "RenderFinalResults" /\ call.pc = "start"
    /\ call' = [call EXCEPT !.pc = "sorted", !.list = ExchangeSort(call.in, 1, 2)]
    /\ UNCHANGED <<runVars, cp>>

\* render(results): the totals of the table
render ==
    /\ call.fn \in {"RunAndRender", "Render"} /\ call.pc = "sorted"
    /\ call' = [call EXCEPT !.pc = "rendered",
                            !.totalWrite = Aggregate(call.list, "WriteThroughput", Len(call.list)),
                            !.totalRead = Aggregate(call.list, "ReadThroughput", Len(call.list))]
    /\ UNCHANGED <<runVars, cp>>

\* RenderFinalResults: the aggregate totals
RenderFinalResultsTotals ==
    /\ call.fn = "RenderFinalResults" /\ call.pc = "sorted"
    /\ call' = [call EXCEPT !.pc = "rendered",
                            !.totalWrite = AggregateOK(call.list, "WriteThroughput", Len(call.list)),
                            !.totalRead = AggregateOK(call.list, "ReadThroughput", Len(call.list))]
    /\ UNCHANGED <<runVars, cp>>

RenderNext ==
    \/ sortSlice
    \/ RenderFinalResultsSort
    \/ render
    \/ RenderFinalResultsTotals

SpecRender == RenderInit /\ [][RenderNext]_vars

\* ---- a directory given more than once -----------------------------------
\* cmd.go checks each argument on its own and Run takes paths as they come:
\* the same directory may be given twice. A fourth specification runs Run
\* on such a list.

\* two path entries for one directory, one slot each
InitSameDir ==
    /\ paths = <<1, 1>>
    /\ d \in [Serial : BOOLEAN, WriteOnly : BOOLEAN, IOPerDrive : {1}]
    /\ Fresh
    /\ cp = NoCopy
    /\ call = NoCall

SpecSameDir == InitSameDir /\ [][Next]_vars

\* ---- the earlier Run (part_002) ----------------------------------------
\* In this version a path runs one write test and one read test, and Run
\* hands runTests the run's subdirectory instead of the path it was given.
\* A path is the sequence of its elements.
Join(path, elem) == Append(path, elem)

InputPaths(n) == [i \in 1..n |-> <<i>>]

\* what one runTests call can answer for the path it was given
runTestsResults(path) ==
    {Result(path, e, 0, 0) : e \in {ErrWrite, ErrRead, Canceled}}
      \cup {Result(path, Nil, w, r) : w \in TputVals, r \in TputVals}

Run002Init ==
    /\ RunIdle
    /\ cp = NoCopy
    /\ call \in {[fn |-> "Run_part002", pc |-> "start", Serial |-> s,
                  paths |-> InputPaths(n),
                  results |-> [i \in 1..n |-> NoResult],
                  dirs |-> {}] : s \in BOOLEAN, n \in 1..NPaths}

\* results[idx] = d.runTests(childCtx, filepath.Join(path, uuidStr)); the
\* serial loop takes the paths in order, the goroutines in any order
runTests_part002(i) ==
    /\ call.fn = "Run_part002" /\ call.pc = "start"
    /\ i \in DOMAIN call.results
    /\ call.results[i] = NoResult
    /\ call.Serial => \A j \in 1..(i - 1) : call.results[j] # NoResult
    /\ LET tmp == Join(call.paths[i], RunId)
       IN \E r \in runTestsResults(tmp) :
            call' = [call EXCEPT !.results[i] = r, !.dirs = @ \cup {tmp}]
    /\ UNCHANGED <<runVars, cp>>

\* after the loop or wg.Wait(): os.RemoveAll(res.Path) for every result,
\* then return results, nil
Run_part002_Return ==
    /\ call.fn = "Run_part002" /\ call.pc = "start"
    /\ \A i \in DOMAIN call.results : call.results[i] # NoResult
    /\ call' = [call EXCEPT !.pc = "returned",
                  !.dirs = @ \ {call.results[i].Path : i \in DOMAIN call.results}]
    /\ UNCHANGED <<runVars, cp>>

Run002Next ==
    \/ \E i \in 1..NPaths : runTests_part002(i)
    \/ Run_part002_Return

SpecRun002 == Run002Init /\ [][Run002Next]_vars

\* ---- IOPerDrive left unset ------------------------------------------------
\* A DrivePerf whose IOPerDrive is the zero value.  The inputs are a serial
\* run, and a parallel WriteOnly run whose four slots only write; neither
\* has a read slot, so the read-slot actions are not part of UnsetNext.
InitUnset ==
    /\ paths = <<1>>
    /\ d \in {c \in [Serial : BOOLEAN, WriteOnly : BOOLEAN, IOPerDrive : {0}] :
                 c.Serial \/ c.WriteOnly}
    /\ Fresh
    /\ cp = NoCopy
    /\ call = NoCall

UnsetNext ==
    \/ Cancel
    \/ RunStart
    \/ \E p \in Paths : runTestsStart(p)
    \/ \E p \in Paths : \E i \in Slots : WriteOpen(p, i)
    \/ \E p \in Paths : \E i \in Slots : WriteChunk(p, i)
    \/ \E p \in Paths : StartReadPhase(p)
    \/ \E p \in Paths : runTestsReturn(p)
    \/ RunReturn

SpecUnset == InitUnset /\ [][UnsetNext]_vars

\* ---- the command: flag and path validation (cmd.go) ----------------------
\* A size flag is a number followed by a unit; humanize.ParseBytes multiplies
\* the number by the unit's factor and fails on a unit it does not know.
ParseError == "parse error"

SizeFlags == [num : 0..MaxSizeNum, unit : {"KiB", "KB"}] \cup {[num |-> 1, unit |-> "x"]}

ParseBytes(s) ==
    CASE s.unit = "KiB" -> [n |-> s.num * 1024, err |-> Nil]
      [] s.unit = "KB"  -> [n |-> s.num * 1000, err |-> Nil]
      [] OTHER          -> [n |-> 0, err |-> ParseError]

\* the path arguments the command is given, and filepath.Clean of each: the
\* empty string becomes ".", a trailing separator is dropped
ArgStrings == {"", "/", "/mnt/a/", "/mnt/b", "/mnt/file", "/mnt/ro", "/mnt/none"}

Clean(arg) ==
    CASE arg = ""        -> "."
      [] arg = "/mnt/a/" -> "/mnt/a"
      [] OTHER           -> arg

\* the file system the command runs on: what os.Stat answers for a path
Stat(path) ==
    CASE path \in {".", "/", "/mnt/a", "/mnt/b", "/mnt/ro"} -> "dir"
      [] path = "/mnt/file" -> "file"
      [] OTHER -> ErrNoEnt

\* whether os.CreateTemp succeeds in a directory
CanCreateTemp(c, dir) ==
    CASE dir \in {"/mnt/a", "/mnt/b"} -> TRUE
      [] dir = "." -> c.cwdWritable
      [] OTHER -> FALSE

ArgLists == UNION {[1..n -> ArgStrings] : n \in 1..NPaths}

CmdInit ==
    /\ RunIdle
    /\ cp = NoCopy
    /\ call \in {[fn |-> "RunE", pc |-> "start", blockSize |-> b, fileSize |-> f,
                  ioPerDrive |-> io, args |-> a, cwdWritable |-> w,
                  bs |-> 0, fs |-> 0, i |-> 1, paths |-> <<>>,
                  statted |-> {}, tempFiles |-> {}, err |-> Nil, ran |-> FALSE]
                   : b \in SizeFlags, f \in SizeFlags, io \in -1..MaxIOPerDrive,
                     a \in ArgLists, w \in BOOLEAN}

\* the checks of a size flag without the test for a multiple of 4k
SizeErrorNoMultiple(v) ==
    IF v.err # Nil THEN "invalid format"
    ELSE IF v.n < alignSize THEN "must be greater than 4k"
    ELSE Nil

\* the error of the first failing check of a size flag, Nil when it passes
SizeError(v) ==
    IF v.err # Nil THEN "invalid format"
    ELSE IF v.n < alignSize THEN "must be greater than 4k"
    ELSE IF v.n % alignSize # 0 THEN "must be multiples of 4k"
    ELSE Nil

\* RunE up to the construction of the DrivePerf: block size, file size, then
\* ioperdrive; the first failing check returns its error
RunE_flags ==
    /\ call.fn = "RunE" /\ call.pc = "start"
    /\ LET bs == ParseBytes(call.blockSize)
           fs == ParseBytes(call.fileSize)
           e  == IF SizeError(bs) # Nil THEN SizeError(bs)
                 ELSE IF SizeError(fs) # Nil THEN SizeError(fs)
                 ELSE IF call.ioPerDrive <= 0 THEN "invalid ioperdrive"
                 ELSE Nil
       IN call' = IF e # Nil THEN [call EXCEPT !.pc = "error", !.err = e]
                  ELSE [call EXCEPT !.pc = "args", !.bs = bs.n, !.fs = fs.n]
    /\ UNCHANGED <<runVars, cp>>

\* one turn of the loop over the arguments: the two tests of the cleaned
\* argument, os.Stat, IsDir, isDirWritable (which creates a temporary file
\* in the directory and removes it again), then the append
RunE_arg ==
    /\ call.fn = "RunE" /\ call.pc = "args"
    /\ call.i <= Len(call.args)
    /\ LET arg  == call.args[call.i]
           path == Clean(arg)
       IN IF Clean(arg) = ""
          THEN call' = [call EXCEPT !.pc = "error", !.err = "empty path"]
          ELSE IF Clean(arg) = "/"
          THEN call' = [call EXCEPT !.pc = "error", !.err = "root"]
          ELSE IF Stat(path) = ErrNoEnt
          THEN call' = [call EXCEPT !.pc = "error", !.err = "does not exist",
                                    !.statted = @ \cup {path}]
          ELSE IF Stat(path) # "dir"
          THEN call' = [call EXCEPT !.pc = "error", !.err = "not a directory",
                                    !.statted = @ \cup {path}]
          ELSE IF ~CanCreateTemp(call, path)
          THEN call' = [call EXCEPT !.pc = "error", !.err = "not writable",
                                    !.statted = @ \cup {path}]
          ELSE call' = [call EXCEPT !.i = @ + 1, !.paths = Append(@, Clean(arg)),
                                    !.statted = @ \cup {path},
                                    !.tempFiles = @ \cup {path}]
    /\ UNCHANGED <<runVars, cp>>

\* after the loop: perf.RunAndRender(c.Context(), paths...)
RunE_run ==
    /\ call.fn = "RunE" /\ call.pc = "args"
    /\ call.i > Len(call.args)
    /\ call' = [call EXCEPT !.pc = "run", !.ran = TRUE]
    /\ UNCHANGED <<runVars, cp>>

CmdNext ==
    \/ RunE_flags
    \/ RunE_arg
    \/ RunE_run

SpecCmd == CmdInit /\ [][CmdNext]_vars

\* ---- panics ----------------------------------------------------------------
\* Run with any IOPerDrive, negative ones included, and a random source that
\* can fail.  A panic in Run's goroutine unwinds to the caller; a panic in a
\* path's goroutine ends the process.  Either way Run does not return.
InitPanic ==
    /\ \E n \in 1..NPaths : paths = [p \in 1..n |-> p]
    /\ d \in [Serial : BOOLEAN, WriteOnly : BOOLEAN, IOPerDrive : {-1, 1}]
    /\ Fresh
    /\ cp = NoCopy
    /\ call = NoCall

\* mustGetUUID: uuid.NewRandom() failed, panic(err)
mustGetUUID_panic ==
    /\ runPc = "init"
    /\ runPc' = "panic"
    /\ UNCHANGED <<paths, d, parentErr, cancelCalled, cur, results, err, pathPc, wpc, rpc, rn,
                   errs, writeThroughputs, readThroughputs, listing, fileLen, overrun,
                   slotsFailed, firstErr, cp, call>>

\* runTests: make([]uint64, d.IOPerDrive) with a negative length panics
runTests_panic(p) ==
    /\ pathPc[p] = "none"
    /\ \/ runPc = "serial" /\ cur = p
       \/ runPc = "wait"
    /\ d.IOPerDrive < 0
    /\ runPc' = "panic"
    /\ UNCHANGED <<paths, d, parentErr, cancelCalled, cur, results, err, pathPc, wpc, rpc, rn,
                   errs, writeThroughputs, readThroughputs, listing, fileLen, overrun,
                   slotsFailed, firstErr, cp, call>>

\* the steps of a run that has not panicked
PanicNext ==
    \/ mustGetUUID_panic
    \/ \E p \in Paths : runTests_panic(p)
    \/ runPc # "panic" /\ d.IOPerDrive >= 0 /\ Next
    \/ runPc # "panic" /\ d.IOPerDrive < 0 /\ (Cancel \/ RunStart)

SpecPanic == InitPanic /\ [][PanicNext]_vars

\* ---- a run under a fair scheduler -------------------------------------------
\* Every step of Run, of a path's task and of a slot is a step of a goroutine
\* that is runnable, or an I/O call that returns: the scheduler lets it happen.
\* The caller's cancellation is not a step of the program and may never come.
Step ==
    \/ RunStart
    \/ \E p \in Paths : runTestsStart(p)
    \/ \E p \in Paths : \E i \in Slots : WriteOpen(p, i)
    \/ \E p \in Paths : \E i \in Slots : WriteChunk(p, i)
    \/ \E p \in Paths : StartReadPhase(p)
    \/ \E p \in Paths : \E i \in Slots : ReadOpen(p, i)
    \/ \E p \in Paths : \E i \in Slots : ReadChunk(p, i)
    \/ \E p \in Paths : runTestsReturn(p)
    \/ RunReturn

\* the shapes of a fair run: len(paths) * d.IOPerDrive is at most MaxLiveSlots
LiveInputs == {in \in [n : 1..NPaths, io : 1..MaxIOPerDrive] : in.n * in.io <= MaxLiveSlots}

LiveInit ==
    /\ \E in \in LiveInputs :
          /\ paths = [p \in 1..in.n |-> p]
          /\ d \in [Serial : BOOLEAN, WriteOnly : BOOLEAN, IOPerDrive : {in.io}]
    /\ Fresh
    /\ cp = NoCopy
    /\ call = NoCall

SpecLive == LiveInit /\ [][Next]_vars /\ WF_vars(Step)

\* ---- the channel-based Run (part_001) ------------------------------------
\* One worker goroutine per path; threads is a buffered channel of
\* parallelism tokens, resultChan an unbuffered channel on which a send and
\* the collector's receive happen together.  worker[w] is the position of
\* path w's goroutine, sent[w] the number of results it has sent.
Workers == DOMAIN call.worker

Sending == {"send write error", "send read error", "send result"}

Run001Init ==
    /\ RunIdle
    /\ cp = NoCopy
    /\ call \in {[fn |-> "Run_part001", pc |-> "collect", Serial |-> s,
                  parallelism |-> IF s THEN 1 ELSE n,
                  threads |-> 0, closed |-> FALSE, ctxDone |-> FALSE,
                  worker |-> [w \in 1..n |-> "start"],
                  sent |-> [w \in 1..n |-> 0],
                  results |-> <<>>, err |-> Nil] : s \in BOOLEAN, n \in 1..NPaths}

\* the caller cancels ctx
ctxCancel ==
    /\ call.fn = "Run_part001" /\ ~call.ctxDone
    /\ call' = [call EXCEPT !.ctxDone = TRUE]
    /\ UNCHANGED <<runVars, cp>>

\* threads <- struct{}{}: blocks while the channel is full, panics on a
\* closed channel
workerAcquire(w) ==
    /\ call.fn = "Run_part001" /\ call.worker[w] = "start"
    /\ IF call.closed
       THEN call' = [call EXCEPT !.worker[w] = "panic"]
       ELSE /\ call.threads < call.parallelism
            /\ call' = [call EXCEPT !.worker[w] = "write test", !.threads = @ + 1]
    /\ UNCHANGED <<runVars, cp>>

\* d.runWriteTest: on an error the worker sends an error result
workerWriteTest(w) ==
    /\ call.fn = "Run_part001" /\ call.worker[w] = "write test"
    /\ \E failed \in BOOLEAN :
          call' = [call EXCEPT !.worker[w] =
                      IF failed THEN "send write error" ELSE "read test"]
    /\ UNCHANGED <<runVars, cp>>

\* d.runReadTest, which follows the write test whether or not it failed
workerReadTest(w) ==
    /\ call.fn = "Run_part001" /\ call.worker[w] = "read test"
    /\ \E failed \in BOOLEAN :
          call' = [call EXCEPT !.worker[w] =
                      IF failed THEN "send read error" ELSE "send result"]
    /\ UNCHANGED <<runVars, cp>>

\* the statement after a send: neither error branch returns
AfterSend(pc) ==
    CASE pc = "send write error" -> "read test"
      [] pc = "send read error"  -> "send result"
      [] pc = "send result"      -> "release"

\* resultChan <- result meets case result := <-resultChan of the collector's
\* select; the collector appends and counts one more turn of its loop
sendReceive(w) ==
    /\ call.fn = "Run_part001" /\ call.pc = "collect"
    /\ call.worker[w] \in Sending
    /\ ~call.closed
    /\ Len(call.results) < Len(call.worker)
    /\ call' = [call EXCEPT !.worker[w] = AfterSend(@), !.sent[w] = @ + 1,
                            !.results = Append(@, w)]
    /\ UNCHANGED <<runVars, cp>>

\* a send on resultChan once Run has closed it: panic
sendOnClosed(w) ==
    /\ call.fn = "Run_part001" /\ call.worker[w] \in Sending
    /\ call.closed
    /\ call' = [call EXCEPT !.worker[w] = "panic"]
    /\ UNCHANGED <<runVars, cp>>

\* <-threads, then the deferred os.RemoveAll(path); a receive on the closed
\* channel does not block
workerRelease(w) ==
    /\ call.fn = "Run_part001" /\ call.worker[w] = "release"
    /\ call' = [call EXCEPT !.worker[w] = "done",
                            !.threads = IF @ > 0 THEN @ - 1 ELSE @]
    /\ UNCHANGED <<runVars, cp>>

\* case <-ctx.Done(): return ctx.Err(); the deferred calls close resultChan
\* and threads
Run_part001_ReturnCancelled ==
    /\ call.fn = "Run_part001" /\ call.pc = "collect"
    /\ call.ctxDone
    /\ Len(call.results) < Len(call.worker)
    /\ call' = [call EXCEPT !.pc = "returned", !.err = Canceled, !.closed = TRUE]
    /\ UNCHANGED <<runVars, cp>>

\* len(paths) results received: sort, render, return nil; the deferred calls
\* close resultChan and threads
Run_part001_Return ==
    /\ call.fn = "Run_part001" /\ call.pc = "collect"
    /\ Len(call.results) = Len(call.worker)
    /\ call' = [call EXCEPT !.pc = "returned", !.closed = TRUE]
    /\ UNCHANGED <<runVars, cp>>

Run001Next ==
    \/ ctxCancel
    \/ \E w \in 1..NPaths : w \in Workers /\ workerAcquire(w)
    \/ \E w \in 1..NPaths : w \in Workers /\ workerWriteTest(w)
    \/ \E w \in 1..NPaths : w \in Workers /\ workerReadTest(w)
    \/ \E w \in 1..NPaths : w \in Workers /\ sendReceive(w)
    \/ \E w \in 1..NPaths : w \in Workers /\ sendOnClosed(w)
    \/ \E w \in 1..NPaths : w \in Workers /\ workerRelease(w)
    \/ Run_part001_ReturnCancelled
    \/ Run_part001_Return

SpecRun001 == Run001Init /\ [][Run001Next]_vars

\* ---- odirectReader.Read (run_linux.go) -------------------------------------
\* The file is a sequence of bytes, each byte its own position, so that a
\* lost, repeated or misplaced byte shows.  o is the reader: the file and the
\* descriptor's offset, len(*o.Bufp), o.buf, o.err, o.seenRead, and what the
\* Reads so far have returned: out, the bytes delivered, n and ret, the values
\* of the last Read.
Files == {[k \in 1..len |-> k] : len \in 0..MaxFileBytes}

Zeros(len) == [k \in 1..len |-> 0]

\* what syscall.Read(o.fd, o.buf) can answer: up to len(o.buf) of the bytes
\* left, 0 at the end of the file, or an error with n = -1
ReaderSyscallRead(o, direct) ==
    {[n |-> -1, err |-> ErrRead]}
      \cup (IF direct THEN {[n |-> -1, err |-> EINVAL]} ELSE {})
      \cup (IF o.off = Len(o.file) THEN {[n |-> 0, err |-> Nil]}
            ELSE {[n |-> k, err |-> Nil] : k \in 1..Min(o.bufLen, Len(o.file) - o.off)})

\* Read without the advance of o.buf after a partial copy
odirectReaderReadNoAdvance(o, len, r, fcntlErr, r2) ==
    IF o.ctxDone THEN [o EXCEPT !.n = 0, !.ret = Canceled]
    ELSE IF o.err # Nil /\ (Len(o.buf) = 0 \/ ~o.seenRead)
    THEN [o EXCEPT !.n = 0, !.ret = o.err]
    ELSE
      LET \* the second syscall.Read, after O_DIRECT has been switched off
          rr == IF r.err = EINVAL /\ fcntlErr = Nil THEN r2 ELSE r
          filled ==
              IF o.seenRead THEN o
              ELSE IF r.err = EINVAL /\ fcntlErr # Nil
              THEN [o EXCEPT !.err = fcntlErr, !.n = r.n, !.ret = fcntlErr, !.done = TRUE]
              ELSE IF rr.err # Nil
              THEN [o EXCEPT !.direct = (r.err # EINVAL) /\ @,
                             !.err = rr.err, !.n = rr.n, !.ret = rr.err, !.done = TRUE]
              ELSE IF rr.n = 0
              THEN [o EXCEPT !.direct = (r.err # EINVAL) /\ @, !.buf = Zeros(o.bufLen),
                             !.err = EOF, !.n = 0, !.ret = EOF, !.done = TRUE]
              ELSE [o EXCEPT !.direct = (r.err # EINVAL) /\ @,
                             !.buf = SubSeq(o.file, o.off + 1, o.off + rr.n),
                             !.off = @ + rr.n, !.err = Nil, !.seenRead = TRUE]
      IN IF filled.done THEN [filled EXCEPT !.done = FALSE]
         ELSE IF len >= Len(filled.buf)
         THEN [filled EXCEPT !.out = @ \o filled.buf, !.seenRead = FALSE,
                             !.n = Len(filled.buf), !.ret = filled.err]
         ELSE [filled EXCEPT !.out = @ \o SubSeq(filled.buf, 1, len),
                             !.n = len, !.ret = Nil]

\* one Read(buf) with len(buf) = len; r is the answer of syscall.Read,
\* fcntlErr that of disableDirectIO and r2 that of the second syscall.Read
odirectReaderRead(o, len, r, fcntlErr, r2) ==
    IF o.ctxDone THEN [o EXCEPT !.n = 0, !.ret = Canceled]
    ELSE IF o.err # Nil /\ (Len(o.buf) = 0 \/ ~o.seenRead)
    THEN [o EXCEPT !.n = 0, !.ret = o.err]
    ELSE
      LET \* the second syscall.Read, after O_DIRECT has been switched off
          rr == IF r.err = EINVAL /\ fcntlErr = Nil THEN r2 ELSE r
          filled ==
              IF o.seenRead THEN o
              ELSE IF r.err = EINVAL /\ fcntlErr # Nil
              THEN [o EXCEPT !.err = fcntlErr, !.n = r.n, !.ret = fcntlErr, !.done = TRUE]
              ELSE IF rr.err # Nil
              THEN [o EXCEPT !.direct = (r.err # EINVAL) /\ @,
                             !.err = rr.err, !.n = rr.n, !.ret = rr.err, !.done = TRUE]
              ELSE IF rr.n = 0
              THEN [o EXCEPT !.direct = (r.err # EINVAL) /\ @, !.buf = Zeros(o.bufLen),
                             !.err = EOF, !.n = 0, !.ret = EOF, !.done = TRUE]
              ELSE [o EXCEPT !.direct = (r.err # EINVAL) /\ @,
                             !.buf = SubSeq(o.file, o.off + 1, o.off + rr.n),
                             !.off = @ + rr.n, !.err = Nil, !.seenRead = TRUE]
      IN IF filled.done THEN [filled EXCEPT !.done = FALSE]
         ELSE IF len >= Len(filled.buf)
         THEN [filled EXCEPT !.out = @ \o filled.buf, !.seenRead = FALSE,
                             !.n = Len(filled.buf), !.ret = filled.err]
         ELSE [filled EXCEPT !.out = @ \o SubSeq(filled.buf, 1, len),
                             !.buf = SubSeq(@, len + 1, Len(@)),
                             !.n = len, !.ret = Nil]

ReaderInit ==
    /\ RunIdle
    /\ cp = NoCopy
    /\ call \in {[fn |-> "odirectReader.Read", file |-> f, off |-> 0, bufLen |-> b,
                  buf |-> <<>>, err |-> Nil, seenRead |-> FALSE, direct |-> TRUE,
                  ctxDone |-> FALSE, out |-> <<>>, n |-> 0, ret |-> Nil, done |-> FALSE,
                  reads |-> 0]
                   : f \in Files, b \in 1..MaxReadBuf}

\* the caller reads with a buffer of any length >= 1, until a Read has
\* returned an error
Read ==
    /\ call.fn = "odirectReader.Read"
    /\ call.ret = Nil
    /\ \E len \in 1..MaxReadBuf :
       \E r \in ReaderSyscallRead(call, call.direct) :
       \E fcntlErr \in {Nil, ErrFcntl} :
       \E r2 \in ReaderSyscallRead(call, FALSE) :
          call' = [odirectReaderRead(call, len, r, fcntlErr, r2) EXCEPT !.reads = 1]
    /\ UNCHANGED <<runVars, cp>>

\* the slot's context is cancelled
ReaderCancel ==
    /\ call.fn = "odirectReader.Read"
    /\ ~call.ctxDone /\ call.ret = Nil
    /\ call' = [call EXCEPT !.ctxDone = TRUE]
    /\ UNCHANGED <<runVars, cp>>

ReaderNext ==
    \/ Read
    \/ ReaderCancel

SpecReader == ReaderInit /\ [][ReaderNext]_vars

\* ---- the UI model's progress updates (ui.go) -------------------------------
\* One drive of the UI model.  IOProgress is the map from IOIndex to the last
\* IOStatus recorded for it; a progress value is the pair <<processed, total>>
\* of the quotient float64(processed) / float64(total).  Bytes are counted in
\* blocks.  phase is the phase the run is in and recordedIn[i] the phase in
\* which IOProgress[i] was recorded.
RECURSIVE SumOver(_, _)
SumOver(f, S) == IF S = {} THEN 0
                 ELSE LET i == CHOOSE x \in S : TRUE IN f[i] + SumOver(f, S \ {i})

NoIOStatus == [set |-> FALSE, BytesProcessed |-> 0, TotalBytes |-> 0, Throughput |-> 0]

\* the ProgressUpdate values a slot sends in a phase
ProgressUpdates(io, phase) ==
    [Phase : {phase}, IOIndex : 0..(io - 1), BytesProcessed : 1..NBlocks,
     TotalBytes : {NBlocks}, Throughput : TputVals]

\* case ProgressMsg of Update, for the drive the update names
UpdateProgress(m, u) ==
    LET io == [m.IOProgress EXCEPT ![u.IOIndex] =
                  [set |-> TRUE, BytesProcessed |-> u.BytesProcessed,
                   TotalBytes |-> u.TotalBytes, Throughput |-> u.Throughput]]
        S == {i \in DOMAIN io : io[i].set}
        totalProcessed == SumOver([i \in S |-> io[i].BytesProcessed], S)
        totalBytes == SumOver([i \in S |-> io[i].TotalBytes], S)
        totalThroughput == SumOver([i \in S |-> io[i].Throughput], S)
        m1 == [m EXCEPT !.IOProgress = io]
    IN IF totalBytes = 0 THEN m1
       ELSE IF u.Phase = "write"
       THEN [m1 EXCEPT !.WriteProgress = <<totalProcessed, totalBytes>>,
                       !.WriteThroughput = totalThroughput, !.Phase = "write"]
       ELSE [m1 EXCEPT !.ReadProgress = <<totalProcessed, totalBytes>>,
                       !.ReadThroughput = totalThroughput, !.Phase = "read"]

UIInit ==
    /\ RunIdle
    /\ cp = NoCopy
    /\ call \in {[fn |-> "UIModel.Update", io |-> io, phase |-> "write",
                  IOProgress |-> [i \in 0..(io - 1) |-> NoIOStatus],
                  recordedIn |-> [i \in 0..(io - 1) |-> "none"],
                  Phase |-> "write",
                  WriteProgress |-> <<0, 1>>, ReadProgress |-> <<0, 1>>,
                  WriteThroughput |-> 0, ReadThroughput |-> 0] : io \in 1..MaxIOPerDrive}

\* a slot reports progress in the phase the run is in
ProgressMsg ==
    /\ call.fn = "UIModel.Update"
    /\ \E u \in ProgressUpdates(call.io, call.phase) :
          call' = [UpdateProgress(call, u) EXCEPT !.recordedIn[u.IOIndex] = u.Phase]
    /\ UNCHANGED <<runVars, cp>>

\* runTests goes from the write phase to the read phase
UIReadPhase ==
    /\ call.fn = "UIModel.Update" /\ call.phase = "write"
    /\ call' = [call EXCEPT !.phase = "read"]
    /\ UNCHANGED <<runVars, cp>>

UINext ==
    \/ ProgressMsg
    \/ UIReadPhase

SpecUI == UIInit /\ [][UINext]_vars

\* ---- properties ---------------------------------------------------------

\* results[p] is a result with a nil Error
Succeeded(p) == results[p] # NoResult /\ results[p].Error = Nil
\* results[p] is a result with a non-nil Error
Failed(p) == results[p] # NoResult /\ results[p].Error # Nil

\* a slot has opened its file for reading, read from it, or ended its read
ReadActed(p, i) == rpc[p][i] \in {"copy", "ok", "fail"}

\* C1: on every path, no read slot opens its file or transfers a byte before
\* every write slot of that path has finished, with success or with an error
C1_WriteReadBarrier ==
    \A p \in Paths : \A i \in Slots :
        ReadActed(p, i) => \A j \in Slots : wpc[p][j] \in {"ok", "fail"}

\* a read slot has delivered a block on a path where one write slot failed
\* and another succeeded
C1_Witness ==
    \E p \in Paths : \E i, j, k \in Slots :
        /\ rpc[p][i] = "copy" /\ rn[p][i] >= 1
        /\ wpc[p][j] = "fail" /\ wpc[p][k] = "ok"

\* C2: in parallel mode nothing on a path waits for another path: each
\* launched slot can take its next step, a path whose own write slots have
\* all finished can start its read phase, and a path whose own slots have
\* all finished can return, whatever the other paths are doing
C2_PerPathBarrier ==
    ~d.Serial =>
      \A p \in Paths :
        /\ (runPc = "wait" /\ pathPc[p] = "none") => ENABLED runTestsStart(p)
        /\ \A i \in Slots :
             /\ wpc[p][i] = "start" => ENABLED WriteOpen(p, i)
             /\ wpc[p][i] = "copy" => ENABLED WriteChunk(p, i)
             /\ rpc[p][i] = "start" => ENABLED ReadOpen(p, i)
             /\ rpc[p][i] = "copy" => ENABLED ReadChunk(p, i)
        /\ (pathPc[p] = "write" /\ ~d.WriteOnly /\ \A i \in Slots : wpc[p][i] \in {"ok", "fail"})
              => ENABLED StartReadPhase(p)
        /\ (pathPc[p] = "read" /\ \A i \in Slots : rpc[p][i] \in {"ok", "fail"})
              => ENABLED runTestsReturn(p)

\* one path has finished its read phase with a result while another path
\* still has an unfinished write slot
C2_Witness ==
    /\ ~d.Serial
    /\ \E p, q \in Paths :
        /\ pathPc[p] = "done" /\ Succeeded(p) /\ results[p].ReadThroughput > 0
        /\ pathPc[q] = "write" /\ \E i \in Slots : wpc[q][i] \in {"start", "copy"}

\* runTests returns for path p in this step
Returns(p) == pathPc[p] # "done" /\ pathPc'[p] = "done"

RECURSIVE Total(_, _)
\* the sum of f over the set of slots S
Total(f, S) == IF S = {} THEN 0
               ELSE LET i == CHOOSE x \in S : TRUE IN f[i] + Total(f, S \ {i})

\* C3: a path whose own slots all succeeded gets a result with a nil Error
\* and the sums of its own slots' throughputs, whatever happened on the
\* other paths; a slot failure never cancels the shared context: only the
\* caller's cancellation makes a slot end with the cancellation error
C3_FailureIsolation ==
    /\ [][\A p \in Paths :
            (Returns(p) /\ \A i \in Slots : wpc[p][i] = "ok" /\ rpc[p][i] \in {"ok", "none"})
               => /\ results'[p].Error = Nil
                  /\ results'[p].WriteThroughput = Total(writeThroughputs[p], Slots)
                  /\ results'[p].ReadThroughput = Total(readThroughputs[p], Slots)]_vars
    /\ [](\A p \in Paths : \A i \in Slots : errs[p][i] = Canceled => parentErr # Nil)
    /\ []((childCtxErr # Nil /\ parentErr = Nil) => runPc = "returned")

\* without any cancellation, one path has an error result and another path
\* a result with throughputs
C3_Witness ==
    /\ parentErr = Nil
    /\ \E p, q \in Paths :
        /\ Failed(p) /\ results[p].Error # Canceled
        /\ Succeeded(q) /\ results[q].WriteThroughput > 0

\* C4: when the caller's context was cancelled during Run, Run returns the
\* cancellation error together with a non-nil result for every input path,
\* and a result, once stored, is returned as it was stored
C4_CancelReturnsBoth ==
    /\ []((runPc = "returned" /\ parentErr # Nil)
            => (err = parentErr /\ \A p \in Paths : results[p] # NoResult))
    /\ [][\A p \in Paths : results[p] # NoResult => results'[p] = results[p]]_vars

\* Run has returned after a cancellation: one path had completed with its
\* throughputs, another carries the cancellation error
C4_Witness ==
    /\ runPc = "returned" /\ parentErr = Canceled
    /\ \E p, q \in Paths :
        /\ Succeeded(p) /\ results[p].ReadThroughput > 0
        /\ Failed(q) /\ results[q].Error = Canceled

\* C5: Run's overall error is non-nil only when the caller's context is
\* cancelled; Run's own cancel() of the child context, which has run by the
\* time Run has returned, does not make it non-nil
C5_OverallErrOnlyOnCancel ==
    /\ err # Nil => parentErr # Nil
    /\ runPc = "returned" => cancelCalled

\* Run has returned a nil overall error although a path failed
C5_Witness ==
    /\ runPc = "returned" /\ parentErr = Nil /\ err = Nil /\ cancelCalled
    /\ \E p \in Paths : Failed(p)

\* C6: when Run has returned, no directory holds <path>/<run id> or a test
\* file in it
C6_NoResidue ==
    runPc = "returned" =>
        \A p \in Paths : /\ RunId \notin listing[paths[p]]
                         /\ \A i \in Slots : fileLen[paths[p]][i] = NoFile

\* Run has returned after a cancellation, with a path that had written its
\* files and a path that failed
C6_Witness ==
    /\ runPc = "returned" /\ parentErr # Nil
    /\ \E p, q \in Paths : Succeeded(p) /\ Failed(q)

InFlight(p, i) == wpc[p][i] \in {"start", "copy"} \/ rpc[p][i] \in {"start", "copy"}
\* slot (p, i) ends its phase in this step
Ends(p, i) == InFlight(p, i) /\ ~InFlight(p, i)'
\* slot (p, i) transfers a block in this step
Transfers(p, i) == fileLen'[paths[p]][i] > fileLen[paths[p]][i] \/ rn'[p][i] > rn[p][i]

\* C8: once the shared context is cancelled, a slot in flight transfers at
\* most one more block and ends with an error, in the write phase as in the
\* read phase; it does not go on to complete its file
C8_CancelStopsSlots ==
    [][\A p \in Paths : \A i \in Slots :
         childCtxErr # Nil =>
            /\ Transfers(p, i) => ~overrun[p][i]
            /\ (Ends(p, i) /\ (wpc[p][i] = "copy" \/ rpc[p][i] = "copy"))
                  => errs'[p][i] # Nil]_vars

\* C9: a Read of the write payload source issued after the cancellation
\* returns the cancellation error and no bytes: a write slot that takes its
\* next copy step under a cancelled context ends with the cancellation error
\* and its file does not grow
C9_PayloadSourceChecksCancel ==
    [][\A p \in Paths : \A i \in Slots :
         (childCtxErr # Nil /\ wpc[p][i] = "copy"
            /\ <<wpc[p][i], fileLen[paths[p]][i]>>' # <<wpc[p][i], fileLen[paths[p]][i]>>)
            => /\ wpc'[p][i] = "fail"
               /\ errs'[p][i] = childCtxErr
               /\ fileLen'[paths[p]][i] = fileLen[paths[p]][i]]_vars

\* C10: a path with a failed slot gets a result with a non-nil Error and
\* both throughputs 0
C10_FailedPathZeroThroughput ==
    \A p \in Paths :
        (results[p] # NoResult /\ slotsFailed[p] > 0)
            => /\ results[p].Error # Nil
               /\ results[p].WriteThroughput = 0
               /\ results[p].ReadThroughput = 0

\* a path returned an error result although one of its slots had failed and
\* another had completed its write and its read
C10_Witness ==
    \E p \in Paths :
        /\ results[p] # NoResult /\ ~d.WriteOnly
        /\ slotsFailed[p] > 0 /\ slotsFailed[p] < d.IOPerDrive

\* C11: when slots of a path have failed, the Error of the path's result is
\* the failure that was observed first in time
C11_FirstObservedErrorWins ==
    [][\A p \in Paths :
         (Returns(p) /\ firstErr[p] # Nil) => results'[p].Error = firstErr[p]]_vars

\* C12: a slot opens its file for reading, reads or ends a read only if its
\* own write succeeded and WriteOnly is not set; a slot whose write failed
\* performs no read I/O
C12_ReadOnlyAfterOwnWrite ==
    \A p \in Paths : \A i \in Slots :
        ReadActed(p, i) => (wpc[p][i] = "ok" /\ ~d.WriteOnly)

\* runTests(p) has launched its slots and has not returned
Running(p) == pathPc[p] \in {"write", "read"}

\* C13: in serial mode at most one path has running slots; a path starts
\* only when every path before it has returned and its <path>/<run id> is
\* removed; the launched slots of the running path take their steps
\* without waiting for one another
C13_SerialOnePathAtATime ==
    d.Serial =>
        /\ \A p, q \in Paths : (Running(p) /\ Running(q)) => p = q
        /\ \A p, q \in Paths :
              (p < q /\ pathPc[q] # "none")
                 => /\ pathPc[p] = "done"
                    /\ RunId \notin listing[paths[p]]
                    /\ \A i \in Slots : fileLen[paths[p]][i] = NoFile
        /\ \A p \in Paths : \A i \in Slots :
              /\ wpc[p][i] = "start" => ENABLED WriteOpen(p, i)
              /\ wpc[p][i] = "copy" => ENABLED WriteChunk(p, i)
              /\ rpc[p][i] = "start" => ENABLED ReadOpen(p, i)
              /\ rpc[p][i] = "copy" => ENABLED ReadChunk(p, i)

\* serial mode: the second path has a slot in flight, the first path has
\* returned a result after writing its files
C13_Witness ==
    /\ d.Serial
    /\ \E q \in Paths :
        /\ q > 1 /\ Running(q) /\ \E i \in Slots : InFlight(q, i)
        /\ fileLen[paths[q]][0] >= 1
        /\ Succeeded(1) /\ results[1].WriteThroughput > 0

\* C14: for a path with no failed slot, WriteThroughput is the sum of the
\* write throughputs of all its slots and ReadThroughput the sum of their
\* read throughputs
C14_ThroughputIsSum ==
    [][\A p \in Paths :
         (Returns(p) /\ \A i \in Slots : errs[p][i] = Nil)
            => /\ results'[p].WriteThroughput = Total(writeThroughputs[p], Slots)
               /\ ~d.WriteOnly => results'[p].ReadThroughput = Total(readThroughputs[p], Slots)]_vars

\* a path with two slots has a result whose throughputs are neither the
\* largest slot value nor a mean: 1 + 2 for the writes and 2 + 2 for the reads
C14_Witness ==
    \E p \in Paths :
        /\ Succeeded(p) /\ d.IOPerDrive = 2
        /\ results[p].WriteThroughput = 3 /\ results[p].ReadThroughput = 4

\* the transfer followed is run by copyAligned of run_linux.go
InCopyAligned == cp.pc # "none" /\ cp.impl = "run_linux" /\ cp.test = "write"
\* the copy loop of the transfer has returned
Copied == cp.pc \in {"copied", "returned"}

\* C15: copyAligned, asked for N > 0 bytes with a buffer that is a multiple
\* of 4096, returns a nil error only when exactly N bytes were delivered to
\* the sink, and never requests more than N bytes in total from the source;
\* a write slot reports a throughput only if exactly FileSize bytes were
\* written, a read slot only if exactly FileSize bytes were read and the end
\* of the file was reached
C15_ExactTransfer ==
    /\ (InCopyAligned /\ Copied /\ cp.err = Nil) => cp.delivered = cp.totalSize
    /\ InCopyAligned => cp.requested <= cp.totalSize
    /\ (cp.pc = "returned" /\ cp.impl = "run_linux" /\ cp.tput)
          => /\ cp.delivered = cp.totalSize
             /\ cp.test = "read" => (cp.eofSeen /\ cp.src = 0)

\* the transfer followed is run by copyAligned, of either version
UsesCopyAligned == cp.pc # "none" /\ ~(cp.impl = "run_linux" /\ cp.test = "read")
\* the copy has returned all totalSize bytes without an error
Completed == Copied /\ cp.err = Nil /\ cp.n = cp.totalSize

\* C16: in a copy of N bytes by copyAligned with a buffer that is a
\* multiple of 4096, from a source that holds N bytes: when N is a multiple
\* of 4096 disableDirectIO is never called; when it is not, a copy that
\* completes has called it and has cleared O_DIRECT, and no chunk that is
\* not a multiple of 4096 is ever written with O_DIRECT set
C16_DisableIffUnaligned ==
    (UsesCopyAligned /\ cp.src0 >= cp.totalSize) =>
        /\ cp.totalSize % DirectioAlignSize = 0 => (cp.disables = 0 /\ cp.direct)
        /\ (cp.totalSize % DirectioAlignSize # 0 /\ Completed) => (cp.disables >= 1 /\ ~cp.direct)
        /\ ~cp.unalignedDirect

\* copyAligned of run_linux.go has completed a copy of several chunks whose
\* last one is partial
C16_Witness ==
    /\ InCopyAligned /\ Completed
    /\ cp.totalSize % DirectioAlignSize # 0 /\ cp.totalSize > cp.bufLen
    /\ cp.disables = 1 /\ ~cp.direct

\* C17: within one transfer disableDirectIO is invoked at most once on the
\* descriptor, and O_DIRECT is never set again once it has been cleared
C17_DisableAtMostOnce ==
    /\ [](cp.pc # "none" => cp.disables <= 1)
    /\ [][(cp.pc # "none" /\ ~cp.direct) => ~cp'.direct]_vars

\* C18: when a Write of the sink accepts fewer bytes than it was passed and
\* returns no error, copyAligned issues no further Write and returns
\* io.ErrShortWrite with a count that holds only bytes the sink accepted,
\* and the slot reports no throughput
C18_ShortWriteStops ==
    (UsesCopyAligned /\ cp.shortSeen) =>
        /\ ~cp.writeAfterShort
        /\ Copied /\ cp.err = ErrShortWrite /\ cp.n <= cp.delivered
        /\ cp.pc = "returned" => (cp.slotErr # Nil /\ ~cp.tput)

\* C19: when the source holds fewer than N bytes the transfer never counts
\* as successful: the slot returns an error and no throughput, and when the
\* end of the input is the only failure that error is the size mismatch or
\* io.ErrUnexpectedEOF
C19_PrematureEOFFails ==
    (cp.pc # "none" /\ cp.src0 < cp.totalSize) =>
        /\ ~cp.tput
        /\ cp.pc = "returned" =>
              /\ cp.slotErr # Nil
              /\ (cp.eofSeen /\ ~cp.otherFail)
                    => cp.slotErr \in {ErrWriteSize, ErrReadSize, ErrUnexpectedEOF}

\* the write slot of run_linux.go has returned the size mismatch after its
\* source ended within the second chunk
C19_Witness ==
    /\ InCopyAligned /\ cp.pc = "returned"
    /\ cp.src0 < cp.totalSize /\ cp.src0 > cp.bufLen /\ cp.eofSeen
    /\ cp.delivered = cp.src0 /\ cp.slotErr = ErrWriteSize

\* C20: when the write test returns after it has opened its file, fdatasync
\* has been attempted before the descriptor was closed, and a failed
\* fdatasync is the error the slot returns, without a throughput
C20_SyncBeforeClose ==
    (cp.pc = "returned" /\ cp.test = "write") =>
        /\ cp.syncTried
        /\ cp.syncErr # Nil => (cp.slotErr = cp.syncErr /\ ~cp.tput)

\* C21: when a write slot or a read slot returns after it has opened its
\* file, the descriptor has been closed, whatever the exit: success, copy
\* error, size mismatch or sync failure
C21_DescriptorClosed ==
    cp.pc = "returned" => cp.closed

\* the call followed has sorted its list
Sorted == call.fn \in {"RunAndRender", "RenderFinalResults"} /\ call.pc \in {"sorted", "rendered"}

\* C22: the list handed to the renderer is a permutation of Run's results in
\* non-increasing order of ReadThroughput, and results with equal
\* ReadThroughput keep their input order
C22_StableSortByRead ==
    Sorted =>
        /\ Len(call.list) = Len(call.in)
        /\ {call.list[i] : i \in DOMAIN call.list} = {call.in[i] : i \in DOMAIN call.in}
        /\ \A i, j \in DOMAIN call.list :
              i < j => /\ call.list[i].ReadThroughput >= call.list[j].ReadThroughput
                       /\ call.list[i].ReadThroughput = call.list[j].ReadThroughput
                             => call.list[i].Path < call.list[j].Path

\* C23: in the sorted list every result with an Error comes after every
\* result without one
C23_ErrorsLast ==
    Sorted =>
        \A i, j \in DOMAIN call.list :
            (call.list[i].Error # Nil /\ call.list[j].Error = Nil) => i > j

\* the sum of field f over the results of s that have no Error
TotalOK(s, f, S) ==
    Total([i \in DOMAIN s |-> IF s[i].Error = Nil THEN s[i][f] ELSE 0], S)

\* C24: the rendered totals are the sums over the results whose Error is
\* nil, in render/Render and in RenderFinalResults
C24_TotalsOverNonError ==
    (call.fn # "none" /\ call.pc = "rendered") =>
        /\ call.totalWrite = TotalOK(call.list, "WriteThroughput", DOMAIN call.list)
        /\ call.totalRead = TotalOK(call.list, "ReadThroughput", DOMAIN call.list)

\* the slot holds a descriptor of its test file
HasOpen(p, i) == wpc[p][i] = "copy" \/ rpc[p][i] = "copy"
\* the name of the slot's test file: <path>/<run id>/.writable-check.tmp-<idx>
FileOf(p, i) == <<paths[p], RunId, i>>

\* C25: all path entries of a run use the one run id; no two workers (path
\* entry, slot index) have the same file open; and the cleanup of a path
\* entry removes no file that a slot of another path entry has open
C25_PrivateFiles ==
    /\ [](\A p, q \in Paths : \A i, j \in Slots :
            (HasOpen(p, i) /\ HasOpen(q, j) /\ <<p, i>> # <<q, j>>)
               => FileOf(p, i) # FileOf(q, j))
    /\ [][\A p, q \in Paths : \A j \in Slots :
            (Returns(p) /\ q # p /\ HasOpen(q, j))
               => /\ fileLen'[paths[q]][j] = fileLen[paths[q]][j]
                  /\ RunId \in listing'[paths[q]]]_vars

\* C26: Run returns one result per input path, at the index of that path and
\* with Path equal to the input path; a result, once stored, never changes.
\* The earlier Run (part_002) stores the run's subdirectory as Path.
C26_OneResultPerPath ==
    call.fn = "Run_part002" /\ call.pc = "returned" =>
        /\ Len(call.results) = Len(call.paths)
        /\ \A i \in DOMAIN call.paths :
              /\ call.results[i] # NoResult
              /\ call.results[i].Path = call.paths[i]

\* the same statement for Run of perf.go
C26_OneResultPerPath_perf ==
    runPc = "returned" =>
        \A p \in DOMAIN paths : results[p] # NoResult /\ results[p].Path = paths[p]

\* a result is stored once and never changed (both versions)
C26_ResultsFinal ==
    [][/\ \A p \in DOMAIN paths : results[p] # NoResult => results'[p] = results[p]
       /\ call.fn = "Run_part002" /\ call'.fn = "Run_part002" =>
            \A i \in DOMAIN call.results :
               call.results[i] # NoResult => call'.results[i] = call.results[i]]_vars

\* C27: with WriteOnly set no read slot is ever started for any path, every
\* result has ReadThroughput 0, and the WriteThroughput of a path with no
\* failed slot is the sum of the write throughputs of its slots
C27_WriteOnlySkipsRead ==
    [][d.WriteOnly =>
         \A p \in Paths :
            /\ pathPc'[p] # "read"
            /\ \A i \in Slots : rpc'[p][i] = "none" /\ readThroughputs'[p][i] = 0
            /\ results'[p] # NoResult => results'[p].ReadThroughput = 0
            /\ (Returns(p) /\ \A i \in Slots : errs[p][i] = Nil)
                  => results'[p].WriteThroughput = Total(writeThroughputs[p], Slots)]_vars

\* a WriteOnly run of two slots returned a path's result: writes 1 + 2, read 0
C27_Witness ==
    \E p \in Paths :
        /\ d.WriteOnly /\ d.IOPerDrive = 2 /\ Succeeded(p)
        /\ results[p].WriteThroughput = 3 /\ results[p].ReadThroughput = 0

\* C28: when IOPerDrive is left at 0, every path Run tests has the default
\* of 4 slots, in serial mode as well as in parallel mode
C28_DefaultIOPerDrive ==
    \A p \in Paths :
        pathPc[p] # "none" => Cardinality(Slots) = DefaultIOPerDrive

\* the parallel half on its own: a parallel run has the default of 4 slots
C28_DefaultIOPerDrive_parallel ==
    ~d.Serial => \A p \in Paths :
                    pathPc[p] # "none" => Cardinality(Slots) = DefaultIOPerDrive

\* a serial run with IOPerDrive = 0 returned a path's result without an error
\* and without having run any slot: both throughputs are 0
C28_SerialNoSlots ==
    \E p \in Paths :
        /\ d.Serial /\ d.IOPerDrive = 0 /\ Succeeded(p)
        /\ results[p].WriteThroughput = 0 /\ results[p].ReadThroughput = 0

\* a size flag the command must refuse: not a size, below 4096, or not a
\* multiple of 4096
BadSize(flag) ==
    LET v == ParseBytes(flag)
    IN v.err # Nil \/ v.n < 4096 \/ v.n % 4096 # 0

\* C29: a block size or file size below 4096 or not a multiple of 4096, or an
\* ioperdrive <= 0, is rejected with an error before any I/O: no path is
\* probed, no file is created and Run is not invoked; a configuration that
\* passes has sizes that are positive multiples of 4096 and ioperdrive >= 1
C29_FlagsRejectedBeforeIO ==
    call.fn = "RunE" =>
        /\ (BadSize(call.blockSize) \/ BadSize(call.fileSize) \/ call.ioPerDrive <= 0)
              => /\ call.pc \in {"start", "error"}
                 /\ call.pc = "error" => call.err # Nil
                 /\ call.statted = {} /\ call.tempFiles = {} /\ call.paths = <<>>
                 /\ ~call.ran
        /\ (call.pc \in {"args", "run"} \/ call.statted # {} \/ call.ran)
              => /\ call.bs = ParseBytes(call.blockSize).n
                 /\ call.fs = ParseBytes(call.fileSize).n
                 /\ call.bs > 0 /\ call.bs % 4096 = 0
                 /\ call.fs > 0 /\ call.fs % 4096 = 0
                 /\ call.ioPerDrive >= 1

\* a block size of 5KiB (above 4096, not a multiple of it) given together
\* with a valid directory was rejected
C29_Witness ==
    /\ call.fn = "RunE" /\ call.pc = "error"
    /\ ParseBytes(call.blockSize).n = 5120
    /\ call.err = "must be multiples of 4k"
    /\ call.args = <<"/mnt/b">>

\* an argument the command must refuse
BadArg(c, arg) ==
    \/ arg = ""
    \/ Clean(arg) = "/"
    \/ Stat(Clean(arg)) # "dir"
    \/ ~CanCreateTemp(c, Clean(arg))

\* C30: every path argument that is empty, is the root, does not exist, is
\* not a directory or is not writable is rejected with an error before any
\* test runs: Run only receives non-empty, non-root, existing, writable
\* directories
C30_PathsRejectedBeforeRun ==
    call.fn = "RunE" =>
        /\ (\E k \in DOMAIN call.args : BadArg(call, call.args[k])) => ~call.ran
        /\ call.ran =>
              \A k \in DOMAIN call.paths :
                 /\ call.paths[k] # "" /\ call.paths[k] # "/"
                 /\ Stat(call.paths[k]) = "dir" /\ CanCreateTemp(call, call.paths[k])

\* the same statement without the empty argument
C30_PathsRejectedBeforeRun_nonEmpty ==
    call.fn = "RunE" =>
        /\ (\E k \in DOMAIN call.args :
               call.args[k] # "" /\ BadArg(call, call.args[k])) => ~call.ran
        /\ call.ran =>
              /\ call.paths = [k \in DOMAIN call.args |-> Clean(call.args[k])]
              /\ \A k \in DOMAIN call.paths :
                    /\ call.paths[k] # "" /\ call.paths[k] # "/"
                    /\ Stat(call.paths[k]) = "dir" /\ CanCreateTemp(call, call.paths[k])

\* the command given the empty argument ran the tests, on "."
C30_EmptyArgRuns ==
    /\ call.fn = "RunE" /\ call.ran
    /\ call.args = <<"">> /\ call.paths = <<".">>

\* C31: for any configuration and any path list Run returns normally: no code
\* path of the core panics or exits the process, including when the run id
\* cannot be generated or IOPerDrive is negative
C31_NeverPanics == runPc # "panic"

\* Run panicked in mustGetUUID before any path was started
C31_PanicNoRunId == runPc = "panic" /\ \A p \in Paths : pathPc[p] = "none" /\ d.IOPerDrive = 1

\* a run whose random source works and whose IOPerDrive is not negative
\* never panics
C31_NoPanicOtherwise ==
    [][runPc' = "panic" => (runPc = "init" \/ d.IOPerDrive < 0)]_vars

\* C32: after the context is cancelled Run starts no write for a path whose
\* test had not yet begun.  In serial mode a path begins after the one before
\* it has returned: when an earlier path's result carries the cancellation
\* error, the context was cancelled before this path began, so this path has
\* no temporary directory and no bytes written
C32_NoWriteAfterCancel ==
    d.Serial =>
        \A p \in Paths :
            (\E q \in 1..(p - 1) : results[q] # NoResult /\ results[q].Error = Canceled)
               => /\ RunId \notin listing[paths[p]]
                  /\ \A i \in SlotIds : fileLen[paths[p]][i] = NoFile

\* a serial run was cancelled while its first path was under test, and the
\* second path afterwards wrote a whole file
C32_WroteAfterCancel ==
    /\ d.Serial /\ Len(paths) = 2 /\ childCtxErr # Nil
    /\ results[1] # NoResult /\ results[1].Error = Canceled
    /\ \E i \in Slots : fileLen[paths[2]][i] = NBlocks

\* slot i of path p is running: its goroutine has been started and has not
\* called wg.Done()
SlotRunning(p, i) == wpc[p][i] \in {"start", "copy"} \/ rpc[p][i] \in {"start", "copy"}

\* this step is taken by slot i of path p
SlotSteps(p, i) == wpc'[p][i] # wpc[p][i] \/ rpc'[p][i] # rpc[p][i]

\* C33: no data race in the harness: while slots run, element i of a path's
\* errs, writeThroughputs and readThroughputs is written only by slot i; the
\* coordinator reads them (to start the read phase, to build the result) only
\* when no slot of the path is running; results[p] is written once, by path
\* p's task, and Run reads the results only after every path has finished
C33_NoDataRace ==
    [][\A p \in Paths :
         /\ \A i \in Slots :
               (\/ errs'[p][i] # errs[p][i]
                \/ writeThroughputs'[p][i] # writeThroughputs[p][i]
                \/ readThroughputs'[p][i] # readThroughputs[p][i])
                  => \/ SlotRunning(p, i) /\ SlotSteps(p, i)
                     \/ Returns(p)
         /\ (Returns(p) \/ (pathPc[p] = "write" /\ pathPc'[p] = "read"))
               => \A i \in Slots : ~SlotRunning(p, i)
         /\ results'[p] # results[p] => Returns(p) /\ results[p] = NoResult
         /\ (runPc # "returned" /\ runPc' = "returned")
               => pathPc[p] = "done" /\ results[p] # NoResult]_vars

\* a parallel run of two paths: path 1 has stored its result while a slot of
\* path 2 is still running
C33_Witness ==
    /\ ~d.Serial /\ Len(paths) = 2
    /\ results[1] # NoResult
    /\ \E i \in Slots : SlotRunning(2, i) /\ rn[2][i] > 0

\* C34: a path's temporary subdirectory is removed only when no write slot
\* and no read slot on it is running, and no slot works on a file under the
\* subdirectory after it has been removed: a slot that takes a copy step
\* still has its subdirectory
C34_RemoveAfterSlots ==
    [][\A p \in Paths :
         /\ (RunId \in listing[paths[p]] /\ RunId \notin listing'[paths[p]])
               => \A q \in Paths : paths[q] = paths[p] =>
                     \A i \in Slots : ~SlotRunning(q, i)
         /\ \A i \in Slots :
               (SlotSteps(p, i) /\ (wpc[p][i] = "copy" \/ rpc[p][i] = "copy"))
                  => RunId \in listing[paths[p]]]_vars

\* the subdirectory of a directory given twice is gone while a slot of one
\* of its entries is still copying
C34_RemovedUnderSlot ==
    \E p \in Paths : \E i \in Slots :
        /\ wpc[p][i] = "copy" \/ rpc[p][i] = "copy"
        /\ RunId \notin listing[paths[p]]

\* C35: Run terminates: provided every I/O call returns, every slot and every
\* path task signals completion on every exit path, so no join blocks forever
\* and Run eventually returns, in serial and in parallel mode, with or without
\* cancellation
C35_RunTerminates == <>(runPc = "returned")

\* a cancelled parallel run of two paths has returned, one path with a failed
\* read and one with the cancellation error
C35_Witness ==
    /\ runPc = "returned" /\ ~d.Serial /\ Len(paths) = 2 /\ err = Canceled
    /\ \E p, q \in Paths :
          /\ Failed(p) /\ results[p].Error = ErrRead
          /\ Failed(q) /\ results[q].Error = Canceled

\* C36: in the channel-based Run each path's worker sends exactly one result
\* and the collector receives exactly one result per path, every worker
\* releases its token, and no worker sends on the result channel after Run
\* has closed it or stays blocked on a channel after Run returns
C36_OneSendPerWorker ==
    call.fn = "Run_part001" =>
        /\ \A w \in Workers :
              /\ call.sent[w] <= 1
              /\ call.worker[w] # "panic"
              /\ call.worker[w] = "done" => call.sent[w] = 1
              /\ call.pc = "returned" => call.worker[w] \in {"release", "done"}
        /\ call.pc = "returned" /\ call.err = Nil =>
              \A w \in Workers : Cardinality({k \in DOMAIN call.results : call.results[k] = w}) = 1

\* a run of two paths without cancellation: the first path's write test
\* failed, the worker sent two results, Run returned with both results from
\* that one path, and the other worker panicked on the closed channel
C36_TwoSendsThenPanic ==
    /\ call.fn = "Run_part001" /\ call.pc = "returned" /\ ~call.ctxDone
    /\ Len(call.worker) = 2
    /\ call.results = <<1, 1>>
    /\ call.worker[2] = "panic"

\* C37: for any file content and any sequence of caller buffer sizes >= 1 the
\* bytes returned by successive odirectReader.Read calls, concatenated, are
\* the file content in order, no byte lost or duplicated: what has been
\* delivered and what is still buffered is the file up to the descriptor's
\* offset; end-of-file is reported only when every byte has been delivered
C37_ReadDeliversFile ==
    call.fn = "odirectReader.Read" =>
        /\ call.out \o (IF call.seenRead THEN call.buf ELSE <<>>)
              = SubSeq(call.file, 1, call.off)
        /\ call.ret = EOF => call.out = call.file /\ call.n = 0
        /\ call.ret = Nil /\ call.reads > 0 => call.n >= 1

\* a file of four bytes read through a three-byte buffer: the Reads returned
\* all four bytes in order, then EOF
C37_Witness ==
    /\ call.fn = "odirectReader.Read" /\ call.ret = EOF
    /\ call.bufLen = 3 /\ call.out = <<1, 2, 3, 4>>

\* C38: copyAligned with N > 0 terminates: an iteration either returns or
\* adds one full non-empty chunk to the written count, so while the loop runs
\* the count is a whole number of buffers below N (at most ceil(N / len(buf))
\* iterations), and the written count never exceeds N
C38_CopyAlignedProgress ==
    [][UsesCopyAligned /\ cp.pc = "loop" /\ cp' # cp =>
         /\ cp.written % cp.bufLen = 0
         /\ cp.written < cp.totalSize
         /\ cp'.written <= cp.totalSize
         /\ \/ cp'.pc = "copied"
            \/ /\ cp'.pc = "loop"
               /\ cp'.written = cp.written + cp.bufLen
               /\ cp'.written < cp.totalSize]_vars

\* a transfer of two buffers and a half page has written the two buffers and
\* is before its third iteration
C38_Witness ==
    /\ UsesCopyAligned /\ cp.pc = "loop"
    /\ cp.bufLen = DirectioAlignSize
    /\ cp.totalSize = 2 * DirectioAlignSize + HalfPage
    /\ cp.written = 2 * DirectioAlignSize

\* the entries of IOProgress recorded in the read phase
ReadEntries == {i \in DOMAIN call.IOProgress : call.recordedIn[i] = "read"}

\* C39: in the UI model, after any sequence of progress updates a drive's
\* ReadProgress is (bytes processed by its slots in the read phase) / (sum of
\* those slots' read totals) and its ReadThroughput the sum of the read-phase
\* slot throughputs: entries recorded in the write phase do not count
C39_ReadAggregateIsReadPhase ==
    (call.fn = "UIModel.Update" /\ ReadEntries # {}) =>
        LET processed == SumOver([i \in ReadEntries |-> call.IOProgress[i].BytesProcessed],
                                 ReadEntries)
            total == SumOver([i \in ReadEntries |-> call.IOProgress[i].TotalBytes],
                             ReadEntries)
            tput == SumOver([i \in ReadEntries |-> call.IOProgress[i].Throughput],
                            ReadEntries)
        IN /\ call.ReadProgress[1] * total = processed * call.ReadProgress[2]
           /\ call.ReadThroughput = tput

\* two slots wrote all their blocks at throughput 1; the first read update of
\* slot 0 (one block, throughput 1) shows a read progress of 3/4 and a read
\* throughput of 2
C39_WriteEntriesCounted ==
    /\ call.fn = "UIModel.Update" /\ call.io = 2
    /\ call.recordedIn = (0 :> "read" @@ 1 :> "write")
    /\ call.IOProgress[0].BytesProcessed = 1 /\ call.IOProgress[0].Throughput = 1
    /\ call.ReadProgress = <<NBlocks + 1, 2 * NBlocks>>
    /\ call.ReadThroughput = 2

\* with one slot per drive there is no other entry to count
C39_SingleSlot ==
    (call.fn = "UIModel.Update" /\ call.io = 1 /\ ReadEntries # {}) =>
        /\ call.ReadProgress = <<call.IOProgress[0].BytesProcessed,
                                 call.IOProgress[0].TotalBytes>>
        /\ call.ReadThroughput = call.IOProgress[0].Throughput

====
